---- MODULE Spec2Model ----
(***************************************************************************)
(* Model of the conversational booking agent: BookingAgent (backend/agent.py)*)
(* driving GoogleCalendarService (backend/calendar_service.py).             *)
(*                                                                         *)
(* Representation.  A Python str is a sequence of one-character strings.    *)
(* A datetime / ISO-8601 string is the number of minutes since local        *)
(* midnight of "today"; a "YYYY-MM-DD" string is a number of days after     *)
(* today.  An optional dict key is a sequence of length 0 (absent) or 1.    *)
(* A possibly raising call returns [ok |-> BOOLEAN, val |-> ...].           *)
(***************************************************************************)
EXTENDS Integers, Sequences, FiniteSets, TLC

(***************************************************************************)
(* Python str primitives                                                   *)
(***************************************************************************)
Digits == {"0", "1", "2", "3", "4", "5", "6", "7", "8", "9"}

LowerLetters ==
    {"a", "b", "c", "d", "e", "f", "g", "h", "i", "j", "k", "l", "m",
     "n", "o", "p", "q", "r", "s", "t", "u", "v", "w", "x", "y", "z"}

\* The capital letters that occur in the texts of the model.
UpperLetters == {"B", "F", "T"}

\* str.lower() on one character (the capitals the modelled inputs use).
LowerChar(c) ==
    CASE c = "B" -> "b"
      [] c = "F" -> "f"
      [] c = "T" -> "t"
      [] OTHER -> c

Lower(s) == [i \in 1..Len(s) |-> LowerChar(s[i])]

IsSpace(c) == c = " "

\* \w of the re module.
IsWordChar(c) == c \in Digits \cup LowerLetters \cup UpperLetters \cup {"_"}

SetMin(S) == CHOOSE x \in S : \A y \in S : x <= y
SetMax(S) == CHOOSE x \in S : \A y \in S : x >= y

\* The least element of a set of positions, 0 for the empty set.
FirstOf(S) == IF S = {} THEN 0 ELSE SetMin(S)

StartsWithAt(s, i, sub) ==
    /\ i >= 1
    /\ i + Len(sub) - 1 <= Len(s)
    /\ \A k \in 1..Len(sub) : s[i + k - 1] = sub[k]

\* str.find, 1-based; 0 when sub does not occur.
Find(s, sub) ==
    FirstOf({i \in 1..(Len(s) - Len(sub) + 1) : StartsWithAt(s, i, sub)})

\* "sub in s"
Contains(s, sub) == \E i \in 1..(Len(s) - Len(sub) + 1) : StartsWithAt(s, i, sub)

\* str.strip()
StripTo(s, keep) ==
    IF keep = {} THEN <<>> ELSE SubSeq(s, SetMin(keep), SetMax(keep))

Strip(s) == StripTo(s, {i \in 1..Len(s) : ~IsSpace(s[i])})

\* str.replace(old, new): every non-overlapping occurrence, left to right;
\* i is the first occurrence in s.
RECURSIVE Replace(_, _, _)
ReplaceAt(s, old, new, i) ==
    IF i = 0 THEN s
    ELSE SubSeq(s, 1, i - 1) \o new
             \o Replace(SubSeq(s, i + Len(old), Len(s)), old, new)

Replace(s, old, new) == ReplaceAt(s, old, new, Find(s, old))

\* str.split(sep): the list of parts; i is the first occurrence in s.
RECURSIVE Split(_, _)
SplitAt(s, sep, i) ==
    IF i = 0 THEN <<s>>
    ELSE <<SubSeq(s, 1, i - 1)>> \o Split(SubSeq(s, i + Len(sep), Len(s)), sep)

Split(s, sep) == SplitAt(s, sep, Find(s, sep))

\* str.split(sep, 1): at most one cut.
Split1At(s, sep, i) ==
    IF i = 0 THEN <<s>>
    ELSE <<SubSeq(s, 1, i - 1), SubSeq(s, i + Len(sep), Len(s))>>

Split1(s, sep) == Split1At(s, sep, Find(s, sep))

DigitVal(c) ==
    CASE c = "0" -> 0 [] c = "1" -> 1 [] c = "2" -> 2 [] c = "3" -> 3
      [] c = "4" -> 4 [] c = "5" -> 5 [] c = "6" -> 6 [] c = "7" -> 7
      [] c = "8" -> 8 [] c = "9" -> 9

DigitChar(n) ==
    CASE n = 0 -> "0" [] n = 1 -> "1" [] n = 2 -> "2" [] n = 3 -> "3"
      [] n = 4 -> "4" [] n = 5 -> "5" [] n = 6 -> "6" [] n = 7 -> "7"
      [] n = 8 -> "8" [] n = 9 -> "9"

RECURSIVE DigitsVal(_)
DigitsVal(s) ==
    IF s = <<>> THEN 0
    ELSE 10 * DigitsVal(SubSeq(s, 1, Len(s) - 1)) + DigitVal(s[Len(s)])

IsDigits(s) == s /= <<>> /\ \A i \in 1..Len(s) : s[i] \in Digits

\* int(s): surrounding blanks are accepted, anything but decimal digits
\* raises ValueError (ok = FALSE).
IntOfStripped(t) ==
    IF IsDigits(t) THEN [ok |-> TRUE, val |-> DigitsVal(t)]
    ELSE [ok |-> FALSE, val |-> 0]

ParseInt(s) == IntOfStripped(Strip(s))

RECURSIVE Decimal(_)
Decimal(n) ==
    IF n < 10 THEN <<DigitChar(n)>>
    ELSE Decimal(n \div 10) \o <<DigitChar(n % 10)>>

\* f"{n:02d}"
Fmt02(n) ==
    IF n < 0 THEN <<"-">> \o Decimal(-n)
    ELSE IF n < 10 THEN <<"0", DigitChar(n)>>
    ELSE Decimal(n)

\* f"{h:02d}:{m:02d}"
FmtHM(h, m) == Fmt02(h) \o <<":">> \o Fmt02(m)

(***************************************************************************)
(* String literals of the source                                           *)
(***************************************************************************)
S_to == <<"t", "o">>
S_until == <<"u", "n", "t", "i", "l">>
S_through == <<"t", "h", "r", "o", "u", "g", "h">>
S_thru == <<"t", "h", "r", "u">>
S_from == <<"f", "r", "o", "m">>
S_for_ == <<"f", "o", "r", " ">>
S_hour == <<"h", "o", "u", "r">>
S_hr == <<"h", "r">>
S_minute == <<"m", "i", "n", "u", "t", "e">>
S_min == <<"m", "i", "n">>
S_am == <<"a", "m">>
S_pm == <<"p", "m">>
S_dot == <<".">>
S_colon == <<":">>
S_dash == <<"-">>
S_morning == <<"m", "o", "r", "n", "i", "n", "g">>
S_afternoon == <<"a", "f", "t", "e", "r", "n", "o", "o", "n">>
S_evening == <<"e", "v", "e", "n", "i", "n", "g">>
S_night == <<"n", "i", "g", "h", "t">>
S_noon == <<"n", "o", "o", "n">>
S_midnight == <<"m", "i", "d", "n", "i", "g", "h", "t">>
S_h0000 == <<"0", "0", ":", "0", "0">>
S_h0100 == <<"0", "1", ":", "0", "0">>
S_h0900 == <<"0", "9", ":", "0", "0">>
S_h1200 == <<"1", "2", ":", "0", "0">>
S_h1300 == <<"1", "3", ":", "0", "0">>
S_h1400 == <<"1", "4", ":", "0", "0">>
S_h1700 == <<"1", "7", ":", "0", "0">>
S_h2000 == <<"2", "0", ":", "0", "0">>
S_h2300 == <<"2", "3", ":", "0", "0">>
\* The two dash alternatives of the separator pattern are stored in the
\* source as three characters each (a-circumflex, euro sign, quotation mark).
S_dash1 == <<"a^", "EUR", "ldquo">>
S_dash2 == <<"a^", "EUR", "rdquo">>

(***************************************************************************)
(* BookingAgent: time phrases                                              *)
(***************************************************************************)
Raise == [ok |-> FALSE, val |-> <<>>]
Return(v) == [ok |-> TRUE, val |-> v]

\* _normalize_time: "2pm" -> "14:00", "9:30" -> "09:30"; ValueError when
\* int() or the two-name unpacking of split(":") fails.
NormalizeHour(h, is_pm, minute) ==
    IF ~h.ok THEN Raise
    ELSE Return(Fmt02(IF is_pm /\ h.val < 12 THEN h.val + 12 ELSE h.val)
                    \o S_colon \o minute)

NormalizeParts(parts, is_pm) ==
    IF Len(parts) /= 2 THEN Raise
    ELSE NormalizeHour(ParseInt(parts[1]), is_pm, parts[2])

NormalizeClock(s, is_pm) ==
    IF ~Contains(s, S_colon) THEN NormalizeHour(ParseInt(s), is_pm, <<"0", "0">>)
    ELSE NormalizeParts(Split(s, S_colon), is_pm)

NormalizeLowered(s) ==
    NormalizeClock(Strip(Replace(Replace(s, S_am, <<>>), S_pm, <<>>)),
                   Contains(s, S_pm))

_normalize_time(time_str) ==
    NormalizeLowered(Strip(Replace(Lower(time_str), S_dot, <<>>)))

\* _add_minutes: no wrap at 24 hours.
AddToClock(h, m, minutes) ==
    IF ~h.ok \/ ~m.ok THEN Raise
    ELSE Return(FmtHM((h.val * 60 + m.val + minutes) \div 60,
                      (h.val * 60 + m.val + minutes) % 60))

AddToParts(parts, minutes) ==
    IF Len(parts) /= 2 THEN Raise
    ELSE AddToClock(ParseInt(parts[1]), ParseInt(parts[2]), minutes)

_add_minutes(time_str, minutes) == AddToParts(Split(time_str, S_colon), minutes)

\* \b of the re module at the gap before position i.
WordBoundary(s, i) ==
    (i > 1 /\ IsWordChar(s[i - 1])) /= (i <= Len(s) /\ IsWordChar(s[i]))

SeparatorWords == <<S_to, S_until, S_through, S_thru, S_dash1, S_dash2>>

\* Length of the match of \b(to|until|through|thru|..|..)\b at position i,
\* 0 when there is none (alternatives are tried in order).
SeparatorMatchLen(s, i) ==
    Len((<<<<>>>> \o SeparatorWords)
          [1 + FirstOf({k \in 1..Len(SeparatorWords) :
                          /\ StartsWithAt(s, i, SeparatorWords[k])
                          /\ WordBoundary(s, i)
                          /\ WordBoundary(s, i + Len(SeparatorWords[k]))})])

\* re.sub(r"\b(to|until|through|thru|..|..)\b", "-", s) from position i on;
\* n is the length of the match at i.
RECURSIVE SubSeparatorsFrom(_, _)
SubSeparatorsStep(s, i, n) ==
    IF n > 0 THEN S_dash \o SubSeparatorsFrom(s, i + n)
    ELSE <<s[i]>> \o SubSeparatorsFrom(s, i + 1)

SubSeparatorsFrom(s, i) ==
    IF i > Len(s) THEN <<>> ELSE SubSeparatorsStep(s, i, SeparatorMatchLen(s, i))

SubSeparators(s) == SubSeparatorsFrom(s, 1)

\* named_times
IsNamedTime(s) ==
    s \in {S_morning, S_afternoon, S_evening, S_night, S_noon, S_midnight}

NamedTime(s) ==
    CASE s = S_morning   -> <<S_h0900, S_h1200>>
      [] s = S_afternoon -> <<S_h1300, S_h1700>>
      [] s = S_evening   -> <<S_h1700, S_h2000>>
      [] s = S_night     -> <<S_h2000, S_h2300>>
      [] s = S_noon      -> <<S_h1200, S_h1300>>
      [] s = S_midnight  -> <<S_h0000, S_h0100>>

DurationUnits == <<S_hour, S_hr, S_minute, S_min>>

\* Number of digits (blanks) of s from position i on.
RECURSIVE RunOfDigits(_, _)
RunOfDigits(s, i) ==
    IF i <= Len(s) /\ s[i] \in Digits THEN 1 + RunOfDigits(s, i + 1) ELSE 0

RECURSIVE RunOfSpaces(_, _)
RunOfSpaces(s, i) ==
    IF i <= Len(s) /\ IsSpace(s[i]) THEN 1 + RunOfSpaces(s, i + 1) ELSE 0

\* re.search(r"for (\d+)\s*(hour|hr|minute|min)", s): the match tried at
\* position i, with d the position after "for ", nd the digits found there,
\* u the position after the blanks and k the unit found there (0: none).
NoDuration == [found |-> FALSE, start |-> 0, num |-> 0, unit |-> <<>>]

DurationUnitAt(s, i, d, nd, k) ==
    IF StartsWithAt(s, i, S_for_) /\ nd >= 1 /\ k > 0
    THEN [found |-> TRUE, start |-> i, num |-> DigitsVal(SubSeq(s, d, d + nd - 1)),
          unit |-> DurationUnits[k]]
    ELSE NoDuration

DurationDigitsAt(s, i, d, nd, u) ==
    DurationUnitAt(s, i, d, nd,
        FirstOf({k \in 1..Len(DurationUnits) : StartsWithAt(s, u, DurationUnits[k])}))

DurationAfterFor(s, i, d, nd) ==
    DurationDigitsAt(s, i, d, nd, d + nd + RunOfSpaces(s, d + nd))

DurationMatchAt(s, i) ==
    DurationAfterFor(s, i, i + Len(S_for_), RunOfDigits(s, i + Len(S_for_)))

DurationAtFirst(s, i) == IF i = 0 THEN NoDuration ELSE DurationMatchAt(s, i)

DurationSearch(s) ==
    DurationAtFirst(s, FirstOf({i \in 1..Len(s) : DurationMatchAt(s, i).found}))

\* Pair of two possibly raising results.
PairOf(a, b) == IF a.ok /\ b.ok THEN Return(<<a.val, b.val>>) ELSE Raise

\* The "from X to Y" branch: parts of split("to").
ParseFromTo(parts) ==
    PairOf(_normalize_time(Strip(Replace(parts[1], S_from, <<>>))),
           _normalize_time(Strip(parts[2])))

\* The "for N hours/minutes" branch: anchor is the normalized leading time.
ParseAnchored(anchor, minutes) ==
    IF anchor.ok THEN PairOf(anchor, _add_minutes(anchor.val, minutes)) ELSE Raise

ParseDuration(time_str, dm) ==
    ParseAnchored(_normalize_time(Strip(SubSeq(time_str, 1, dm.start - 1))),
                  IF dm.unit[1] = "h" THEN dm.num * 60 ELSE dm.num)

\* The "X-Y" branch: parts of split("-", 1).
ParseRange(parts) ==
    PairOf(_normalize_time(Strip(parts[1])), _normalize_time(Strip(parts[2])))

\* The single-time branch.
ParseSingle(normalized) ==
    IF normalized.ok THEN PairOf(normalized, _add_minutes(normalized.val, 30))
    ELSE Raise

\* _parse_time after the duration pattern has been searched for.
ParseSearched(time_str, dm) ==
    IF dm.found THEN ParseDuration(time_str, dm)
    ELSE IF Contains(time_str, S_dash) THEN ParseRange(Split1(time_str, S_dash))
    ELSE ParseSingle(_normalize_time(time_str))

\* _parse_time after the separators have been standardized.
ParseStandardized(time_str) ==
    IF IsNamedTime(time_str) THEN Return(NamedTime(time_str))
    ELSE IF Contains(time_str, S_from) /\ Contains(time_str, S_to)
    THEN ParseFromTo(Split(time_str, S_to))
    ELSE ParseSearched(time_str, DurationSearch(time_str))

\* _parse_time: time phrase -> (start, end), or ValueError.
_parse_time(raw) ==
    IF raw = <<>> THEN Return(<<S_h0900, S_h1700>>)
    ELSE ParseStandardized(SubSeparators(Strip(Lower(raw))))


S_today == <<"t", "o", "d", "a", "y">>
S_tomorrow == <<"t", "o", "m", "o", "r", "r", "o", "w">>
S_day_after_tomorrow == <<"d", "a", "y", " ", "a", "f", "t", "e", "r", " ", "t", "o", "m", "o", "r", "r", "o", "w">>
S_next_week == <<"n", "e", "x", "t", " ", "w", "e", "e", "k">>
S_next_month == <<"n", "e", "x", "t", " ", "m", "o", "n", "t", "h">>
S_monday == <<"m", "o", "n", "d", "a", "y">>
S_tuesday == <<"t", "u", "e", "s", "d", "a", "y">>
S_wednesday == <<"w", "e", "d", "n", "e", "s", "d", "a", "y">>
S_thursday == <<"t", "h", "u", "r", "s", "d", "a", "y">>
S_friday == <<"f", "r", "i", "d", "a", "y">>
S_saturday == <<"s", "a", "t", "u", "r", "d", "a", "y">>
S_sunday == <<"s", "u", "n", "d", "a", "y">>
S_next == <<"n", "e", "x", "t">>
S_this == <<"t", "h", "i", "s">>
S_coming == <<"c", "o", "m", "i", "n", "g">>
S_space == <<" ">>
S_between == <<"b", "e", "t", "w", "e", "e", "n">>
S_and == <<"a", "n", "d">>
S_Meeting == <<"M", "e", "e", "t", "i", "n", "g">>
S_book == <<"b", "o", "o", "k">>
S_schedule == <<"s", "c", "h", "e", "d", "u", "l", "e">>
S_set_up == <<"s", "e", "t", " ", "u", "p">>
S_want == <<"w", "a", "n", "t">>
S_free == <<"f", "r", "e", "e">>
S_available == <<"a", "v", "a", "i", "l", "a", "b", "l", "e">>
S_have_time == <<"h", "a", "v", "e", " ", "t", "i", "m", "e">>
S_in_2_days == <<"i", "n", " ", "2", " ", "d", "a", "y", "s">>

(***************************************************************************)
(* BookingAgent: date phrases                                              *)
(***************************************************************************)
\* relative_keywords
IsRelativeKeyword(s) ==
    s \in {S_today, S_tomorrow, S_day_after_tomorrow, S_next_week, S_next_month}

RelativeKeyword(s) ==
    CASE s = S_today              -> 0
      [] s = S_tomorrow           -> 1
      [] s = S_day_after_tomorrow -> 2
      [] s = S_next_week          -> 7
      [] s = S_next_month         -> 30

\* weekdays, in the dict's insertion order; index k has weekday number k - 1.
WeekdayNames ==
    <<S_monday, S_tuesday, S_wednesday, S_thursday, S_friday, S_saturday, S_sunday>>

DatePrefixes == <<S_next, S_this, S_coming>>

\* days_ahead without the step to the following week.
DaysAheadThisWeek(prefix, idx, today_wd) == (idx - today_wd) % 7

\* days_ahead of the weekday branch.
DaysAhead(prefix, idx, today_wd) ==
    LET days_ahead == (idx - today_wd + (IF prefix /= S_this THEN 7 ELSE 0)) % 7
    IN  IF days_ahead = 0 /\ prefix /= S_this THEN 7 ELSE days_ahead

\* The (prefix, day) pairs of the nested loops that occur in s, numbered in
\* loop order.
WeekdayHits(s) ==
    {n \in 0..(Len(DatePrefixes) * Len(WeekdayNames) - 1) :
        Contains(s, DatePrefixes[(n \div Len(WeekdayNames)) + 1] \o S_space
                        \o WeekdayNames[(n % Len(WeekdayNames)) + 1])}

\* dateparser.parse(date_str, PREFER_DATES_FROM = future): the library's
\* answer for the phrases used here; [ok |-> FALSE] stands for None.
DateparserParse(s) ==
    IF s = S_in_2_days THEN Return(2) ELSE [ok |-> FALSE, val |-> 0]

\* The weekday branch for the first pair n that occurs.
WeekdayDate(n, today_wd) ==
    Return(DaysAhead(DatePrefixes[(n \div Len(WeekdayNames)) + 1],
                     n % Len(WeekdayNames), today_wd))

\* _parse_date once the weekday loops have run (hits: the pairs found).
ParseDateFrom(date_str, hits, today_wd) ==
    IF IsRelativeKeyword(date_str) THEN Return(RelativeKeyword(date_str))
    ELSE IF hits /= {} THEN WeekdayDate(SetMin(hits), today_wd)
    ELSE DateparserParse(date_str)

ParseDateLowered(date_str, today_wd) ==
    ParseDateFrom(date_str, WeekdayHits(date_str), today_wd)

\* _parse_date: days after today, or ValueError.
_parse_date(raw, today_wd) ==
    IF raw = <<>> THEN Return(0) ELSE ParseDateLowered(Strip(Lower(raw)), today_wd)

(***************************************************************************)
(* BookingAgent: extraction                                                *)
(***************************************************************************)
\* An optional (am|pm) group at position i: its length.
PeriodLen(s, i) ==
    IF StartsWithAt(s, i, S_am) \/ StartsWithAt(s, i, S_pm) THEN 2 ELSE 0

\* Hour of a 12-hour reading as both extraction regex branches compute it.
HourOf(hour, period) ==
    IF period = S_pm /\ hour < 12 THEN hour + 12
    ELSE IF period = S_am /\ hour = 12 THEN 0
    ELSE hour

NoClock == [ok |-> FALSE, hour |-> 0, minute |-> 0, period |-> <<>>, next |-> 0]

\* A clock reading matched at position i: hour digits up to c, minute
\* digits (if any) up to e, the optional period at p.
ClockRead(s, i, c, m, e, p) ==
    [ok     |-> c > i,
     hour   |-> IF c > i THEN DigitsVal(SubSeq(s, i, c - 1)) ELSE 0,
     minute |-> IF e > m THEN DigitsVal(SubSeq(s, m, e - 1)) ELSE 0,
     period |-> SubSeq(s, p, p + PeriodLen(s, p) - 1),
     next   |-> IF PeriodLen(s, p) > 0 THEN p + PeriodLen(s, p) ELSE e]

ClockPeriod(s, i, c, m, e) == ClockRead(s, i, c, m, e, e + RunOfSpaces(s, e))

\* (\d{1,2})(?::(\d{2}))?\s*(am|pm)? with the hour digits ending before c.
ShortClockFrom(s, i, c) ==
    IF StartsWithAt(s, c, S_colon) /\ RunOfDigits(s, c + 1) >= 2
    THEN ClockPeriod(s, i, c, c + 1, c + 3)
    ELSE ClockPeriod(s, i, c, c, c)

ShortClockAt(s, i) ==
    ShortClockFrom(s, i, i + (IF RunOfDigits(s, i) >= 2 THEN 2 ELSE 1))

\* re.search(r"(\d{1,2})(?::(\d{2}))?\s*(am|pm)?", s): the match starts at
\* the first digit of s.
TimeSearchFrom(s, i) == IF i = 0 THEN NoClock ELSE ShortClockAt(s, i)

TimeSearch(s) == TimeSearchFrom(s, FirstOf({i \in 1..Len(s) : s[i] \in Digits}))

\* (\d+)(?::(\d+))?\s*(am|pm)? with the hour digits ending before c.
LongClockFrom(s, i, c) ==
    IF StartsWithAt(s, c, S_colon) /\ RunOfDigits(s, c + 1) >= 1
    THEN ClockPeriod(s, i, c, c + 1, c + 1 + RunOfDigits(s, c + 1))
    ELSE ClockPeriod(s, i, c, c, c)

ClockAt(s, i) == LongClockFrom(s, i, i + RunOfDigits(s, i))

\* (?:-|and) at position i: its length.
RangeSeparatorLen(s, i) ==
    IF StartsWithAt(s, i, S_dash) THEN 1
    ELSE IF StartsWithAt(s, i, S_and) THEN 3 ELSE 0

\* r"between (\d+)(?::(\d+))?\s*(am|pm)?\s*(?:-|and)\s*(\d+)(?::(\d+))?\s*(am|pm)?"
\* tried at position i: a is the first reading, sp the position of the
\* separator and sl its length.
NoRange == [found |-> FALSE, a |-> NoClock, b |-> NoClock]

RangeSecond(s, i, a, sl, b) ==
    [found |-> StartsWithAt(s, i, S_between \o S_space) /\ a.ok /\ sl > 0 /\ b.ok,
     a |-> a, b |-> b]

RangeSeparator(s, i, a, sp, sl) ==
    RangeSecond(s, i, a, sl, ClockAt(s, sp + sl + RunOfSpaces(s, sp + sl)))

RangeFirst(s, i, a, sp) == RangeSeparator(s, i, a, sp, RangeSeparatorLen(s, sp))

RangeAfter(s, i, a) == RangeFirst(s, i, a, a.next + RunOfSpaces(s, a.next))

RangeMatchAt(s, i) == RangeAfter(s, i, ClockAt(s, i + Len(S_between) + 1))

RangeAtFirst(s, i) == IF i = 0 THEN NoRange ELSE RangeMatchAt(s, i)

RangeSearch(s) ==
    RangeAtFirst(s, FirstOf({i \in 1..Len(s) : RangeMatchAt(s, i).found}))

FallbackWeekdays == <<S_monday, S_tuesday, S_wednesday, S_thursday, S_friday>>

\* An extracted_details dict: the intent key is optional, the other four are
\* always set by either extraction path.
Details(intent, date, time, duration, purpose) ==
    [intent |-> intent, date |-> date, time |-> time,
     duration |-> duration, purpose |-> purpose]

\* The date keywords of _simple_extraction; days: the weekdays found.
FallbackDateOf(user_input, days) ==
    IF Contains(user_input, S_tomorrow) THEN S_tomorrow
    ELSE IF days /= {} THEN S_next \o S_space \o FallbackWeekdays[SetMin(days)]
    ELSE IF Contains(user_input, S_next_week) THEN S_next_week
    ELSE S_today

FallbackDate(user_input) ==
    FallbackDateOf(user_input,
        {k \in 1..Len(FallbackWeekdays) : Contains(user_input, FallbackWeekdays[k])})

\* A clock pattern that sets no time when nothing matches.
FallbackClockUnset(tm) ==
    IF tm.ok THEN FmtHM(HourOf(tm.hour, tm.period), tm.minute) ELSE <<>>

\* The time keywords and the clock pattern of _simple_extraction.
FallbackClock(tm) ==
    IF tm.ok THEN FmtHM(HourOf(tm.hour, tm.period), tm.minute) ELSE S_h1200

FallbackTime(user_input) ==
    IF Contains(user_input, S_afternoon) THEN S_h1400
    ELSE IF Contains(user_input, S_morning) THEN S_h0900
    ELSE IF Contains(user_input, S_evening) THEN S_h1700
    ELSE FallbackClock(TimeSearch(user_input))

\* The "between" pattern of _simple_extraction.
FallbackRange(user_input) ==
    IF Contains(user_input, S_between)
        /\ (Contains(user_input, S_dash) \/ Contains(user_input, S_and))
    THEN RangeSearch(user_input)
    ELSE NoRange

FallbackRangeTime(start_hour, start_min, end_hour, end_min) ==
    FmtHM(start_hour, start_min) \o S_dash \o FmtHM(end_hour, end_min)

FallbackRangeDuration(start_hour, start_min, end_hour, end_min) ==
    (end_hour * 60 + end_min) - (start_hour * 60 + start_min)

FallbackDetails(date, time, rm) ==
    IF rm.found
    THEN Details(<<>>, date,
                 FallbackRangeTime(HourOf(rm.a.hour, rm.a.period), rm.a.minute,
                                   HourOf(rm.b.hour, rm.b.period), rm.b.minute),
                 FallbackRangeDuration(HourOf(rm.a.hour, rm.a.period), rm.a.minute,
                                       HourOf(rm.b.hour, rm.b.period), rm.b.minute),
                 S_Meeting)
    ELSE Details(<<>>, date, time, 30, S_Meeting)

SimpleExtractionLowered(user_input) ==
    FallbackDetails(FallbackDate(user_input), FallbackTime(user_input),
                    FallbackRange(user_input))

\* _simple_extraction: the extracted dict for a raw turn text.
_simple_extraction(raw) == SimpleExtractionLowered(Lower(raw))

(***************************************************************************)
(* GoogleCalendarService                                                   *)
(***************************************************************************)
MinutesPerDay == 24 * 60

\* The working day: replace(hour=9), replace(hour=17); the scan step.
WorkStartHour == 9
WorkEndHour == 17
SlotStepMinutes == 15

\* stop_after_attempt(3) of both retry decorators.
StopAfterAttempt == 3

\* strftime("%I:%M %p") of an instant: 12-hour clock, minute, AM/PM.
Clock12(t) ==
    LET h == (t % MinutesPerDay) \div 60
    IN  <<IF h % 12 = 0 THEN 12 ELSE h % 12, t % 60, IF h < 12 THEN "AM" ELSE "PM">>

\* A scan that stops one candidate early: the last slot may not end at
\* end_datetime.
RECURSIVE PossibleSlotsEndingBefore(_, _, _)
PossibleSlotsEndingBefore(current_time, slot_duration, end_datetime) ==
    IF current_time + slot_duration < end_datetime
    THEN <<[start |-> current_time, end |-> current_time + slot_duration]>>
             \o PossibleSlotsEndingBefore(current_time + SlotStepMinutes,
                                          slot_duration, end_datetime)
    ELSE <<>>

\* The while loop building possible_slots, from current_time on.
RECURSIVE PossibleSlotsFrom(_, _, _)
PossibleSlotsFrom(current_time, slot_duration, end_datetime) ==
    IF current_time + slot_duration <= end_datetime
    THEN <<[start |-> current_time, end |-> current_time + slot_duration]>>
             \o PossibleSlotsFrom(current_time + SlotStepMinutes, slot_duration, end_datetime)
    ELSE <<>>

\* An overlap test that looks at the slot's start only.
OverlapsAtStart(slot, busy) == busy.start <= slot.start /\ slot.start < busy.end

\* The overlap test of the inner loop.
Overlaps(slot, busy) == ~(slot.end <= busy.start \/ slot.start >= busy.end)

IsAvailable(slot, busy_slots) ==
    \A k \in 1..Len(busy_slots) : ~Overlaps(slot, busy_slots[k])

\* The loop over possible_slots that keeps the free ones.
RECURSIVE FilterAvailable(_, _)
FilterAvailable(possible_slots, busy_slots) ==
    IF possible_slots = <<>> THEN <<>>
    ELSE (IF IsAvailable(Head(possible_slots), busy_slots)
          THEN <<[start |-> Head(possible_slots).start,
                  end |-> Head(possible_slots).end,
                  display |-> Clock12(Head(possible_slots).start)]>>
          ELSE <<>>)
             \o FilterAvailable(Tail(possible_slots), busy_slots)

\* The body of get_available_slots once the free/busy query has answered.
AvailableSlotsOf(date, duration_minutes, busy_slots) ==
    FilterAvailable(
        PossibleSlotsFrom(date * MinutesPerDay + WorkStartHour * 60, duration_minutes,
                          date * MinutesPerDay + WorkEndHour * 60),
        busy_slots)

\* One execution of the undecorated get_available_slots.  api is what the
\* collaborators do in this attempt: "nocreds" (_get_credentials gives None),
\* "error" (the free/busy request raises) or "busy" with the busy intervals.
\* The except clause turns every exception into the return value [].
GetAvailableSlotsOnce(date, duration_minutes, api) ==
    IF api.kind = "nocreds" THEN [raised |-> FALSE, val |-> <<>>]
    ELSE IF api.kind = "error" THEN [raised |-> FALSE, val |-> <<>>]
    ELSE [raised |-> FALSE, val |-> AvailableSlotsOf(date, duration_minutes, api.busy)]

\* An empty dict stands for "no event"; a created event carries the four keys.
EmptyBooking == [empty |-> TRUE, id |-> 0, htmlLink |-> 0, start |-> 0, end |-> 0]

\* A book_appointment whose failed request escapes as an exception.
BookAppointmentOnceRaising(start_time, end_time, summary, api) ==
    IF api.kind = "nocreds" THEN [raised |-> FALSE, val |-> EmptyBooking]
    ELSE IF api.kind = "error" THEN [raised |-> TRUE, val |-> EmptyBooking]
    ELSE [raised |-> FALSE,
          val |-> [empty |-> FALSE, id |-> api.id, htmlLink |-> api.id,
                   start |-> start_time, end |-> end_time]]

\* One execution of the undecorated book_appointment.  api: "nocreds",
\* "error" (events().insert raises) or "ok" with the new event's id.
BookAppointmentOnce(start_time, end_time, summary, api) ==
    IF api.kind = "nocreds" THEN [raised |-> FALSE, val |-> EmptyBooking]
    ELSE IF api.kind = "error" THEN [raised |-> FALSE, val |-> EmptyBooking]
    ELSE [raised |-> FALSE,
          val |-> [empty |-> FALSE, id |-> api.id, htmlLink |-> api.id,
                   start |-> start_time, end |-> end_time]]

\* tenacity's retry(stop = stop_after_attempt(3)): the wrapped call is made
\* again only when it raised, at most StopAfterAttempt times; results[k] is
\* what attempt k would return.  Gives the value and the attempts made.
RECURSIVE Retrying(_, _)
Retrying(results, attempt) ==
    IF results[attempt].raised /\ attempt < StopAfterAttempt
    THEN Retrying(results, attempt + 1)
    ELSE [raised |-> results[attempt].raised, val |-> results[attempt].val,
          attempts |-> attempt]

\* get_available_slots as callers see it (decorated); apis[k] is the
\* collaborators' behaviour in attempt k.
get_available_slots(date, duration_minutes, apis) ==
    Retrying([k \in 1..Len(apis) |->
                 GetAvailableSlotsOnce(date, duration_minutes, apis[k])], 1)

\* book_appointment as callers see it (decorated).
book_appointment(start_time, end_time, summary, apis) ==
    Retrying([k \in 1..Len(apis) |->
                 BookAppointmentOnce(start_time, end_time, summary, apis[k])], 1)

(***************************************************************************)
(* Inputs of the model                                                     *)
(***************************************************************************)
\* Number of chat turns in a run.
MaxTurns == 2

\* user_id values: main.py never passes the empty one, process_message
\* still guards against it.
UserIds == {"", "u1"}

T_book == <<"B", "o", "o", "k", " ", "t", "o", "m", "o", "r", "r", "o", "w", " ", "2", "p", "m">>
T_free == <<"a", "r", "e", " ", "y", "o", "u", " ", "f", "r", "e", "e", " ", "f", "r", "i", "d", "a", "y">>
T_hello == <<"h", "e", "l", "l", "o">>
T_both == <<"w", "a", "n", "t", " ", "f", "r", "e", "e", " ", "t", "i", "m", "e">>

\* Turn texts.
Texts == {T_book, T_free, T_hello, T_both}

S_asdf == <<"a", "s", "d", "f">>
S_soon == <<"s", "o", "o", "n">>
S_sync == <<"s", "y", "n", "c">>
S_30 == <<"3", "0">>

\* What the LLM collaborator does in one call: "raise" (chat.invoke fails),
\* "text" (the reply, after the fence stripping, is not JSON) or "json" (it
\* is a JSON object; each key is optional).
LlmObject(intent, date, time, duration, purpose) ==
    [kind |-> "json",
     obj |-> [intent |-> intent, date |-> date, time |-> time,
              duration |-> duration, purpose |-> purpose]]

LlmOutcomes ==
    { [kind |-> "raise", obj |-> LlmObject(<<>>, <<>>, <<>>, <<>>, <<>>).obj],
      [kind |-> "text",  obj |-> LlmObject(<<>>, <<>>, <<>>, <<>>, <<>>).obj],
      LlmObject(<<"book">>, <<S_tomorrow>>, <<S_morning>>, <<S_30>>, <<S_sync>>),
      LlmObject(<<"unsure">>, <<<<>>>>, <<S_h1400>>, <<>>, <<>>),
      LlmObject(<<"check">>, <<S_asdf>>, <<S_h1400>>, <<S_30>>, <<>>),
      LlmObject(<<>>, <<S_today>>, <<S_soon>>, <<>>, <<>>),
      LlmObject(<<"book">>, <<S_today>>, <<S_h1400>>, <<S_soon>>, <<>>) }

\* Busy intervals the free/busy query may report for a day, as minutes of
\* that day: the whole working day; all but 09:00-09:30 and 14:00-14:30.
BusyPatterns ==
    { <<[start |-> 540, end |-> 1020]>>,
      <<[start |-> 570, end |-> 840], [start |-> 870, end |-> 1020]>> }

BusyOn(date, pattern) ==
    [k \in 1..Len(pattern) |->
        [start |-> date * MinutesPerDay + pattern[k].start,
         end   |-> date * MinutesPerDay + pattern[k].end]]

\* What the credential and calendar collaborators may do in one attempt.
LookupApis(date) ==
    { [kind |-> "nocreds", busy |-> <<>>], [kind |-> "error", busy |-> <<>>] }
        \cup { [kind |-> "busy", busy |-> BusyOn(date, p)] : p \in BusyPatterns }

BookApis(next_id) ==
    { [kind |-> "nocreds", id |-> 0], [kind |-> "error", id |-> 0],
      [kind |-> "ok", id |-> next_id] }

\* What the collaborators may do in the attempts of one availability call,
\* from the given attempt on: a further attempt exists only when the one
\* before it raised and the attempts are not used up.
RECURSIVE LookupAttempts(_, _, _)
LookupAttempts(date, duration_minutes, attempt) ==
    UNION { IF GetAvailableSlotsOnce(date, duration_minutes, api).raised
               /\ attempt < StopAfterAttempt
            THEN { <<api>> \o rest :
                       rest \in LookupAttempts(date, duration_minutes, attempt + 1) }
            ELSE { <<api>> } : api \in LookupApis(date) }

\* The same for one booking call.
RECURSIVE BookAttempts(_, _, _, _, _)
BookAttempts(start_time, end_time, summary, next_id, attempt) ==
    UNION { IF BookAppointmentOnce(start_time, end_time, summary, api).raised
               /\ attempt < StopAfterAttempt
            THEN { <<api>> \o rest :
                       rest \in BookAttempts(start_time, end_time, summary, next_id,
                                             attempt + 1) }
            ELSE { <<api>> } : api \in BookApis(next_id) }

\* Weekdays "today" may fall on (0 = Monday).
TodayWeekdays == {0, 4}

(***************************************************************************)
(* State                                                                   *)
(***************************************************************************)
VARIABLES
    conversations,  \* BookingAgent.conversations: user id -> conversation dict
    today_weekday,  \* datetime.now(self.timezone).date().weekday()
    pc,             \* where the running turn is: "idle" between turns, else
                    \* the workflow node to run next, or "return"
    user_id,        \* process_message's user_id of the running turn
    user_input,     \* process_message's message of the running turn
    returned,       \* what process_message returned for the last turn
    turns,          \* turns started so far
    events,         \* events the calendar backend has created
    turn_before,    \* the conversation as the turn found it (absent: <<>>)
    turn_offered,   \* the slot suggest_slots offered in this turn, if any
    turn_lookups,   \* the get_available_slots calls of this turn: attempts
                    \* made, whether the first request raised, slots found
    turn_bookings,  \* the book_appointment calls of this turn: the slot,
                    \* attempts made, whether the first request raised, the
                    \* events().insert requests issued, result
    turn_errors,    \* the errors raised inside this turn, in order
    turn_escaped,   \* TRUE when an exception left a workflow node
    invoked         \* a direct call of one function of the program: its
                    \* arguments and, once it has run, its result

vars ==
    <<conversations, today_weekday, pc, user_id, user_input, returned, turns,
      events, turn_before, turn_offered, turn_lookups, turn_bookings,
      turn_errors, turn_escaped, invoked>>

(***************************************************************************)
(* Message texts                                                           *)
(***************************************************************************)
\* A message text is a fixed sentence of the source, the text the user
\* typed, or one of the three templates filled in.
Text(kind, sentence, chars, from, to, link, n) ==
    [kind |-> kind, sentence |-> sentence, chars |-> chars,
     from |-> from, to |-> to, link |-> link, n |-> n]

Sentence(t) == Text("sentence", t, <<>>, <<>>, <<>>, 0, 0)
Typed(chars) == Text("typed", "", chars, <<>>, <<>>, 0, 0)

\* _format_datetime: "%a %b %d, %I:%M %p" keeps the day and the 12-hour
\* clock reading of the instant.
_format_datetime(t) == <<t \div MinutesPerDay>> \o Clock12(t)

AuthErrorText == Sentence("Authentication error. Please sign in again.")
\* The detail of the HTTP 401 response of chat.
UnauthorizedText == Sentence("Please authenticate with Google Calendar first")
ProcessErrorText == Sentence("Sorry, I encountered an error. Please try again.")
NotUnderstoodText == Sentence("Sorry, I didn't understand that.")
DateErrorText == Sentence("Sorry, I couldn't understand the date. Please try again.")
CheckFailedText == Sentence("Failed to check availability. Please try again.")
NoSlotsTryText ==
    Sentence("No available slots found for your requested time. Please try another time.")
NoMoreSlotsText ==
    Sentence("No more available slots for your requested time. Please try another time.")
NoSlotSelectedText == Sentence("No appointment slot selected. Please start over.")
BookFailedText == Sentence("Failed to book appointment. Please try again.")
NoSlotsText == Sentence("No available slots found for your requested time.")
ProceedText == Sentence("How would you like to proceed?")

\* "I found an available slot: <start> - <end> Would this work for you?"
OfferText(slot) ==
    Text("offer", "", <<>>, _format_datetime(slot.start), _format_datetime(slot.end), 0, 0)

\* "Appointment booked! When: <start> - <end> Link: <htmlLink>"
BookedText(booking) ==
    Text("booked", "", <<>>, _format_datetime(booking.start),
         _format_datetime(booking.end), booking.htmlLink, 0)

\* "Yes, I can check availability for <date>. Would you like me to find a
\* <duration>-minute slot for a <purpose>?"
InquiryText(date, duration, purpose) ==
    Text("inquiry", "", purpose, <<date>>, <<>>, 0, duration)

HumanMessage(content) == [role |-> "human", content |-> content]
AIMessage(content) == [role |-> "ai", content |-> content]

(***************************************************************************)
(* process_message: entry                                                  *)
(***************************************************************************)
NewConversation ==
    [messages |-> <<>>, extracted_details |-> <<>>, state |-> "awaiting_input",
     available_slots |-> <<>>, current_slot_index |-> 0,
     suggested_slot |-> <<>>, booking |-> <<>>]

\* The agent and the calendar service as constructed.
Constructed ==
    /\ conversations = [u \in {} |-> NewConversation]
    /\ today_weekday \in TodayWeekdays
    /\ pc = "idle"
    /\ user_id = ""
    /\ user_input = <<>>
    /\ returned = <<>>
    /\ turns = 0
    /\ events = <<>>
    /\ turn_before = <<>>
    /\ turn_offered = <<>>
    /\ turn_lookups = <<>>
    /\ turn_bookings = <<>>
    /\ turn_errors = <<>>
    /\ turn_escaped = FALSE

Init ==
    /\ Constructed
    /\ invoked = <<>>

\* What a direct call leaves alone: everything but the call itself.
agent_vars ==
    <<conversations, today_weekday, pc, user_id, user_input, returned, turns,
      events, turn_before, turn_offered, turn_lookups, turn_bookings,
      turn_errors, turn_escaped>>

Conv == conversations[user_id]

\* A falsy user id: the turn is answered without touching any state.
RejectTurn(u, message) ==
    /\ pc = "idle"
    /\ turns < MaxTurns
    /\ u = ""
    /\ turns' = turns + 1
    /\ returned' = <<AuthErrorText>>
    /\ user_id' = u
    /\ user_input' = message
    /\ turn_before' = <<>>
    /\ turn_offered' = <<>>
    /\ turn_lookups' = <<>>
    /\ turn_bookings' = <<>>
    /\ turn_errors' = <<>>
    /\ turn_escaped' = FALSE
    /\ UNCHANGED <<conversations, today_weekday, invoked, pc, events>>

\* A chat request that stores the message before it looks at the credentials.
ChatUnauthorizedAfterAppend(u, message) ==
    /\ pc = "idle"
    /\ turns < MaxTurns
    /\ u /= ""
    /\ turns' = turns + 1
    /\ returned' = <<UnauthorizedText>>
    /\ user_id' = u
    /\ user_input' = message
    /\ conversations' =
         [v \in DOMAIN conversations \cup {u} |->
             IF v = u
             THEN [(IF u \in DOMAIN conversations THEN conversations[u]
                    ELSE NewConversation)
                       EXCEPT !.messages = Append(@, HumanMessage(Typed(message)))]
             ELSE conversations[v]]
    /\ turn_before' = IF u \in DOMAIN conversations THEN <<conversations[u]>> ELSE <<>>
    /\ turn_offered' = <<>>
    /\ turn_lookups' = <<>>
    /\ turn_bookings' = <<>>
    /\ turn_errors' = <<"unauthorized">>
    /\ turn_escaped' = FALSE
    /\ UNCHANGED <<today_weekday, invoked, pc, events>>

\* chat when _get_credentials gives nothing for the user id: HTTP 401 is
\* raised and process_message is not called.  (The request model admits no
\* empty user id.)
ChatUnauthorized(u, message) ==
    /\ pc = "idle"
    /\ turns < MaxTurns
    /\ u /= ""
    /\ turns' = turns + 1
    /\ returned' = <<UnauthorizedText>>
    /\ user_id' = u
    /\ user_input' = message
    /\ turn_before' = IF u \in DOMAIN conversations THEN <<conversations[u]>> ELSE <<>>
    /\ turn_offered' = <<>>
    /\ turn_lookups' = <<>>
    /\ turn_bookings' = <<>>
    /\ turn_errors' = <<"unauthorized">>
    /\ turn_escaped' = FALSE
    /\ UNCHANGED <<conversations, today_weekday, invoked, pc, events>>

\* The conversation is created on the first turn, the message is appended
\* and the workflow is entered at "extract".
StartTurn(u, message) ==
    /\ pc = "idle"
    /\ turns < MaxTurns
    /\ u /= ""
    /\ turns' = turns + 1
    /\ LET old == IF u \in DOMAIN conversations THEN conversations[u]
                  ELSE NewConversation
       IN  /\ conversations' =
                [v \in DOMAIN conversations \cup {u} |->
                    IF v = u
                    THEN [old EXCEPT !.messages = Append(@, HumanMessage(Typed(message)))]
                    ELSE conversations[v]]
           /\ turn_before' = IF u \in DOMAIN conversations THEN <<old>> ELSE <<>>
    /\ user_id' = u
    /\ user_input' = message
    /\ pc' = "extract"
    /\ returned' = <<>>
    /\ turn_offered' = <<>>
    /\ turn_lookups' = <<>>
    /\ turn_bookings' = <<>>
    /\ turn_errors' = <<>>
    /\ turn_escaped' = FALSE
    /\ UNCHANGED <<today_weekday, invoked, events>>

(***************************************************************************)
(* Workflow nodes                                                          *)
(***************************************************************************)
\* A dict.get(key, default) on an optional key.
GetOr(opt, default) == IF opt = <<>> THEN default ELSE opt[1]

\* int(details.get("duration", 30)) on the reply's object.
LlmDuration(obj) ==
    IF obj.duration = <<>> THEN [ok |-> TRUE, val |-> 30]
    ELSE ParseInt(obj.duration[1])

\* TRUE when extract_details ends in _simple_extraction: any exception, a
\* reply that is not a JSON object, or a duration int() rejects.
ExtractionFailed(llm) == ~(llm.kind = "json" /\ LlmDuration(llm.obj).ok)

\* An extraction that stores the bare defaults when the reply is unusable.
ExtractedOrDefaults(message, llm) ==
    IF ExtractionFailed(llm) THEN Details(<<>>, S_today, S_h1200, 30, S_Meeting)
    ELSE Details(llm.obj.intent, GetOr(llm.obj.date, S_today),
                 GetOr(llm.obj.time, S_h1200), LlmDuration(llm.obj).val,
                 GetOr(llm.obj.purpose, S_Meeting))

\* extract_details: the dict it stores.
ExtractedBy(message, llm) ==
    IF ExtractionFailed(llm) THEN _simple_extraction(message)
    ELSE Details(llm.obj.intent, GetOr(llm.obj.date, S_today),
                 GetOr(llm.obj.time, S_h1200), LlmDuration(llm.obj).val,
                 GetOr(llm.obj.purpose, S_Meeting))

BookingWords == {S_book, S_schedule, S_set_up, S_want}
InquiryWords == {S_free, S_available, S_have_time}

\* The chain with its first two tests in the other order.
DecideInquiryFirst(is_booking, is_inquiry, has_date, has_time) ==
    IF is_inquiry THEN "inquire"
    ELSE IF is_booking /\ has_date /\ has_time THEN "check"
    ELSE IF has_date /\ has_time THEN "check"
    ELSE "respond"

\* The if/elif chain of _decide_after_extraction.
DecideBranch(is_booking, is_inquiry, has_date, has_time) ==
    IF is_booking /\ has_date /\ has_time THEN "check"
    ELSE IF is_inquiry THEN "inquire"
    ELSE IF has_date /\ has_time THEN "check"
    ELSE "respond"

DecideLowered(text, details) ==
    DecideBranch(\E word \in BookingWords : Contains(text, word),
                 \E word \in InquiryWords : Contains(text, word),
                 details.date /= <<>>, details.time /= <<>>)

\* _decide_after_extraction: the branch taken out of "extract".
_decide_after_extraction(message, details) == DecideLowered(Lower(message), details)

\* A decision that leaves an earlier booking in the conversation.
ExtractStoreKeepingBooking(details) ==
    /\ conversations' =
         [conversations EXCEPT ![user_id] = [@ EXCEPT !.extracted_details = <<details>>]]
    /\ pc' = _decide_after_extraction(user_input, details)

ExtractStore(details) ==
    /\ conversations' =
         [conversations EXCEPT ![user_id] =
             [@ EXCEPT !.extracted_details = <<details>>, !.booking = <<>>]]
    /\ pc' = _decide_after_extraction(user_input, details)

\* Node "extract" with its conditional edge, which also drops any booking.
Extract(llm) ==
    /\ pc = "extract"
    /\ ExtractStore(ExtractedBy(user_input, llm))
    /\ turn_errors' = IF ExtractionFailed(llm) THEN Append(turn_errors, "extraction")
                      ELSE turn_errors
    /\ UNCHANGED <<today_weekday, invoked, user_id, user_input, returned, turns, events,
                   turn_before, turn_offered, turn_lookups, turn_bookings,
                   turn_escaped>>

\* One message list shared by every conversation.
SayToAll(text) ==
    conversations' =
        [v \in DOMAIN conversations |->
            [conversations[v] EXCEPT !.messages = Append(@, AIMessage(text))]]

Say(text) ==
    conversations' =
        [conversations EXCEPT ![user_id].messages = Append(@, AIMessage(text))]

InquireAbout(details, date) ==
    IF date.ok
    THEN /\ Say(InquiryText(date.val, details.duration, details.purpose))
         /\ UNCHANGED turn_errors
    ELSE /\ Say(DateErrorText)
         /\ turn_errors' = Append(turn_errors, "inquiry_date")

\* An inquiry whose failure ends the workflow at "respond".
InquireEndingOnError ==
    /\ pc = "inquire"
    /\ InquireAbout(Conv.extracted_details[1],
                    _parse_date(Conv.extracted_details[1].date, today_weekday))
    /\ pc' = IF _parse_date(Conv.extracted_details[1].date, today_weekday).ok
             THEN "check" ELSE "respond"
    /\ UNCHANGED <<today_weekday, invoked, user_id, user_input, returned, turns, events,
                   turn_before, turn_offered, turn_lookups, turn_bookings,
                   turn_escaped>>

\* Node "inquire" (generate_inquiry_response); its edge leads to "check".
Inquire ==
    /\ pc = "inquire"
    /\ InquireAbout(Conv.extracted_details[1],
                    _parse_date(Conv.extracted_details[1].date, today_weekday))
    /\ pc' = "check"
    /\ UNCHANGED <<today_weekday, invoked, user_id, user_input, returned, turns, events,
                   turn_before, turn_offered, turn_lookups, turn_bookings,
                   turn_escaped>>

\* A range test that takes in the end hour.
HourInRangeInclusive(slot_hour, start_hour, end_hour) ==
    start_hour <= slot_hour /\ slot_hour <= end_hour

\* _is_time_in_range: only the hours are compared.
HourInRange(slot_hour, start_hour, end_hour) ==
    start_hour <= slot_hour /\ slot_hour < end_hour

_is_time_in_range(slot_time, start, end) ==
    HourInRange((slot_time % MinutesPerDay) \div 60,
                ParseInt(Split(start, S_colon)[1]).val,
                ParseInt(Split(end, S_colon)[1]).val)

\* filtered_slots
RECURSIVE FilterInRange(_, _, _)
FilterInRange(all_slots, start, end) ==
    IF all_slots = <<>> THEN <<>>
    ELSE (IF _is_time_in_range(Head(all_slots).start, start, end)
          THEN <<Head(all_slots)>> ELSE <<>>)
             \o FilterInRange(Tail(all_slots), start, end)

\* The filtered list even when it is empty.
FilteredOnly(filtered_slots, all_slots) == filtered_slots

\* "filtered_slots or all_slots"
FilteredOrAll(filtered_slots, all_slots) ==
    IF filtered_slots /= <<>> THEN filtered_slots ELSE all_slots

\* The except clause of check_availability.
CheckFailed(error) ==
    /\ Say(CheckFailedText)
    /\ turn_errors' = Append(turn_errors, error)

\* check_availability after the availability call has returned.
CheckCalled(apis, call, time) ==
    /\ turn_lookups' =
         Append(turn_lookups,
                [attempts |-> call.attempts, failed |-> apis[1].kind = "error",
                 found |-> Len(call.val), slots |-> call.val])
    /\ IF call.raised
       THEN CheckFailed("availability")
       ELSE /\ conversations' =
                 [conversations EXCEPT ![user_id] =
                     [@ EXCEPT !.available_slots =
                                   FilteredOrAll(
                                       FilterInRange(call.val, time.val[1], time.val[2]),
                                       call.val),
                               !.current_slot_index = 0]]
            /\ turn_errors' = IF apis[call.attempts].kind = "error"
                              THEN Append(turn_errors, "availability")
                              ELSE IF apis[call.attempts].kind = "nocreds"
                              THEN Append(turn_errors, "credentials")
                              ELSE turn_errors

\* check_availability after the date and time phrases have been parsed;
\* apis[k] is what the collaborators do in attempt k of the availability call.
CheckParsed(details, date, time) ==
    IF ~date.ok \/ ~time.ok
    THEN /\ CheckFailed(IF ~date.ok THEN "date" ELSE "time")
         /\ UNCHANGED turn_lookups
    ELSE \E apis \in LookupAttempts(date.val, details.duration, 1) :
             CheckCalled(apis, get_available_slots(date.val, details.duration, apis),
                         time)

\* Node "check" (check_availability).
Check ==
    /\ pc = "check"
    /\ CheckParsed(Conv.extracted_details[1],
                   _parse_date(Conv.extracted_details[1].date, today_weekday),
                   _parse_time(Conv.extracted_details[1].time))
    /\ pc' = "suggest"
    /\ UNCHANGED <<today_weekday, invoked, user_id, user_input, returned, turns, events,
                   turn_before, turn_offered, turn_bookings, turn_escaped>>

\* An offer that leaves the slot pointer where it was.
OfferWithoutAdvance(slot, idx) ==
    /\ conversations' =
         [conversations EXCEPT ![user_id] =
             [@ EXCEPT !.suggested_slot = <<slot>>,
                       !.messages = <<AIMessage(OfferText(slot))>>]]
    /\ turn_offered' = <<slot>>

\* The branch of suggest_slots that offers available_slots[idx].
Offer(slot, idx) ==
    /\ conversations' =
         [conversations EXCEPT ![user_id] =
             [@ EXCEPT !.suggested_slot = <<slot>>,
                       !.current_slot_index = idx + 1,
                       !.messages = <<AIMessage(OfferText(slot))>>]]
    /\ turn_offered' = <<slot>>

\* Node "suggest" (suggest_slots).
Suggest ==
    /\ pc = "suggest"
    /\ IF Conv.available_slots = <<>>
       THEN Say(NoSlotsTryText) /\ UNCHANGED turn_offered
       ELSE IF Conv.current_slot_index < Len(Conv.available_slots)
       THEN Offer(Conv.available_slots[Conv.current_slot_index + 1],
                  Conv.current_slot_index)
       ELSE Say(NoMoreSlotsText) /\ UNCHANGED turn_offered
    /\ pc' = "confirm"
    /\ UNCHANGED <<today_weekday, invoked, user_id, user_input, returned, turns, events,
                   turn_before, turn_lookups, turn_bookings, turn_errors,
                   turn_escaped>>

\* finalize_booking after the booking call has returned; last is what the
\* collaborators did in the attempt that ended the call.
ConfirmCalled(slot, summary, apis, call, last) ==
    /\ turn_bookings' =
         Append(turn_bookings,
                [slot |-> slot, attempts |-> call.attempts,
                 failed |-> apis[1].kind = "error",
                 requests |-> Cardinality({k \in 1..call.attempts :
                                              apis[k].kind /= "nocreds"}),
                 result |-> call.val])
    /\ events' =
         IF last.kind = "ok"
         THEN Append(events, [id |-> last.id, start |-> slot.start,
                              end |-> slot.end, summary |-> summary])
         ELSE events
    /\ IF call.raised
       THEN /\ Say(BookFailedText)
            /\ turn_errors' = Append(turn_errors, "booking")
       ELSE /\ conversations' =
                 [conversations EXCEPT ![user_id].booking = <<call.val>>]
            /\ turn_errors' = IF last.kind = "error"
                              THEN Append(turn_errors, "booking")
                              ELSE IF last.kind = "nocreds"
                              THEN Append(turn_errors, "credentials")
                              ELSE turn_errors

ConfirmCall(slot, summary, apis, call) ==
    ConfirmCalled(slot, summary, apis, call, apis[call.attempts])

\* A confirm step that waits for the user to accept: it books nothing now.
ConfirmSlotAwaitingAccept(slot, summary) ==
    /\ UNCHANGED <<conversations, events, turn_bookings, turn_errors>>

\* apis[k] is what the collaborators do in attempt k of the booking call.
ConfirmSlot(slot, summary) ==
    \E apis \in BookAttempts(slot.start, slot.end, summary, Len(events) + 1, 1) :
        ConfirmCall(slot, summary, apis,
                    book_appointment(slot.start, slot.end, summary, apis))

\* Node "confirm" (finalize_booking).
Confirm ==
    /\ pc = "confirm"
    /\ IF Conv.suggested_slot = <<>>
       THEN /\ Say(NoSlotSelectedText)
            /\ UNCHANGED <<events, turn_bookings, turn_errors>>
       ELSE ConfirmSlot(Conv.suggested_slot[1],
                        GetOr(Conv.extracted_details,
                              Details(<<>>, <<>>, <<>>, 30, S_Meeting)).purpose)
    /\ pc' = "respond"
    /\ UNCHANGED <<today_weekday, invoked, user_id, user_input, returned, turns,
                   turn_before, turn_offered, turn_lookups, turn_escaped>>

\* The text generate_response renders (the booking has all its keys).
RenderedResponse(conv_state) ==
    IF conv_state.booking /= <<>> THEN BookedText(conv_state.booking[1])
    ELSE IF conv_state.available_slots = <<>> THEN NoSlotsText
    ELSE ProceedText

\* "any(msg.content == response for msg in conv_state['messages'])"
AlreadySaid(messages, response) ==
    \E k \in 1..Len(messages) : messages[k].content = response

\* The append at the end of generate_response.
SayOnce(response) ==
    conversations' =
        [conversations EXCEPT ![user_id].messages =
            IF AlreadySaid(@, response) THEN @ ELSE Append(@, AIMessage(response))]

\* Node "respond" (generate_response).  Reading 'start' of an empty booking
\* dict raises KeyError; nothing in the workflow catches it, so it reaches
\* the except clause of process_message, which returns its apology.
Respond ==
    /\ pc = "respond"
    /\ IF Conv.booking /= <<>> /\ Conv.booking[1].empty
       THEN /\ turn_escaped' = TRUE
            /\ turn_errors' = Append(turn_errors, "render")
            /\ returned' = <<ProcessErrorText>>
            /\ pc' = "idle"
            /\ UNCHANGED conversations
       ELSE /\ SayOnce(RenderedResponse(Conv))
            /\ pc' = "return"
            /\ UNCHANGED <<turn_escaped, turn_errors, returned>>
    /\ UNCHANGED <<today_weekday, invoked, user_id, user_input, turns, events,
                   turn_before, turn_offered, turn_lookups, turn_bookings>>

\* The same search without reversed(): the first AIMessage.
FirstAIMessage(messages) ==
    IF \A k \in 1..Len(messages) : messages[k].role /= "ai" THEN NotUnderstoodText
    ELSE messages[SetMin({k \in 1..Len(messages) : messages[k].role = "ai"})].content

\* The content of the last AIMessage, or the default.
LastAIMessage(messages) ==
    IF \A k \in 1..Len(messages) : messages[k].role /= "ai" THEN NotUnderstoodText
    ELSE messages[SetMax({k \in 1..Len(messages) : messages[k].role = "ai"})].content

\* process_message after the workflow has run to its end.
ReturnResponse ==
    /\ pc = "return"
    /\ returned' = <<LastAIMessage(Conv.messages)>>
    /\ pc' = "idle"
    /\ UNCHANGED <<conversations, today_weekday, invoked, user_id, user_input, turns,
                   events, turn_before, turn_offered, turn_lookups,
                   turn_bookings, turn_errors, turn_escaped>>

Next ==
    \/ \E u \in UserIds, message \in Texts : RejectTurn(u, message)
    \/ \E u \in UserIds, message \in Texts : ChatUnauthorized(u, message)
    \/ \E u \in UserIds, message \in Texts : StartTurn(u, message)
    \/ \E llm \in LlmOutcomes : Extract(llm)
    \/ Inquire
    \/ Check
    \/ Suggest
    \/ Confirm
    \/ Respond
    \/ ReturnResponse

Spec == Init /\ [][Next]_vars

\* The same agent serving two signed-in users: self.conversations holds one
\* entry per user id, and chat runs each request to its end before the next.
TwoUsers == {"u1", "u2"}

\* What the two users type, and what the LLM answers, in the two-user runs.
TwoUserTexts == {T_book, T_free}

TwoUserLlmOutcomes ==
    { llm \in LlmOutcomes :
          \/ llm.kind = "raise"
          \/ llm.kind = "json" /\ llm.obj.date \in {<<S_tomorrow>>, <<<<>>>>} }

NextTwoUsers ==
    \/ \E message \in TwoUserTexts : RejectTurn("", message)
    \/ \E u \in TwoUsers, message \in TwoUserTexts : ChatUnauthorized(u, message)
    \/ \E u \in TwoUsers, message \in TwoUserTexts : StartTurn(u, message)
    \/ \E llm \in TwoUserLlmOutcomes : Extract(llm)
    \/ Inquire
    \/ Check
    \/ Suggest
    \/ Confirm
    \/ Respond
    \/ ReturnResponse

SpecTwoUsers == Init /\ [][NextTwoUsers]_vars

\* ---------------------------------------------------------------------
\* get_available_slots called directly, as the /available-slots endpoint
\* does, for the dates, durations and free/busy answers below.
\* ---------------------------------------------------------------------
MaxBusy == 2
SlotDates == {0, 1}
SlotDurations == {5, 15, 20, 30, 45, 60, 8 * 60, 8 * 60 + 15}

\* Minutes of the day at which a busy interval may start or end: before,
\* at and after both ends of the working day, on and off the 15 minute grid.
BusyTimes == {8 * 60 + 45, 9 * 60 + 10, 9 * 60 + 30, 16 * 60 + 45, 17 * 60}

BusyIntervalsOn(date) ==
    { busy \in { [start |-> date * MinutesPerDay + a,
                  end |-> date * MinutesPerDay + b] : a \in BusyTimes, b \in BusyTimes } :
          busy.start < busy.end }

\* freebusy['calendars']['primary']['busy']: a list of at most MaxBusy intervals.
BusyListsOn(date) ==
    UNION { [1..n -> BusyIntervalsOn(date)] : n \in 0..MaxBusy }

SlotCalls ==
    UNION { { [fn |-> "get_available_slots", date |-> date,
               duration_minutes |-> duration_minutes, busy_slots |-> busy_slots,
               result |-> <<>>] :
                  duration_minutes \in SlotDurations,
                  busy_slots \in BusyListsOn(date) } : date \in SlotDates }

InitSlots ==
    /\ Constructed
    /\ invoked \in SlotCalls

\* The endpoint's call; the free/busy request answers with busy_slots.
GetAvailableSlots ==
    /\ invoked.result = <<>>
    /\ invoked' =
         [invoked EXCEPT !.result =
             <<get_available_slots(
                   invoked.date, invoked.duration_minutes,
                   <<[kind |-> "busy", busy |-> invoked.busy_slots]>>).val>>]
    /\ UNCHANGED agent_vars

NextSlots == GetAvailableSlots

SpecSlots == InitSlots /\ [][NextSlots]_vars

\* ---------------------------------------------------------------------
\* _parse_date called directly with a weekday phrase, "<prefix> <day>", on
\* every weekday of today.
\* ---------------------------------------------------------------------
WeekdayNumbers == 0..6

DateCalls ==
    { [fn |-> "_parse_date", prefix |-> DatePrefixes[p], day |-> idx,
       date_str |-> DatePrefixes[p] \o S_space \o WeekdayNames[idx + 1],
       result |-> <<>>] :
          p \in 1..Len(DatePrefixes), idx \in WeekdayNumbers }

\* datetime.now() falls on any day of the week.
InitDates ==
    /\ conversations = [u \in {} |-> NewConversation]
    /\ today_weekday \in WeekdayNumbers
    /\ pc = "idle"
    /\ user_id = ""
    /\ user_input = <<>>
    /\ returned = <<>>
    /\ turns = 0
    /\ events = <<>>
    /\ turn_before = <<>>
    /\ turn_offered = <<>>
    /\ turn_lookups = <<>>
    /\ turn_bookings = <<>>
    /\ turn_errors = <<>>
    /\ turn_escaped = FALSE
    /\ invoked \in DateCalls

ParseDate ==
    /\ invoked.result = <<>>
    /\ invoked' =
         [invoked EXCEPT !.result = <<_parse_date(invoked.date_str, today_weekday)>>]
    /\ UNCHANGED agent_vars

NextDates == ParseDate

SpecDates == InitDates /\ [][NextDates]_vars

\* ---------------------------------------------------------------------
\* _normalize_time and _parse_time called directly: 12-hour readings
\* "<h>[:MM][ ]<am|pm>", and time phrases of the single-time, duration,
\* range and named forms.
\* ---------------------------------------------------------------------
ClockHours == 1..12
ClockMarkers == {S_am, S_pm}
ClockMinutes == {<<>>, <<":", "0", "0">>, <<":", "3", "0">>, <<":", "4", "5">>}
ClockGaps == {<<>>, S_space}

NormalizeCalls ==
    { [fn |-> "_normalize_time", hour |-> h, minute |-> minute, marker |-> marker,
       time_str |-> Decimal(h) \o minute \o gap \o marker, result |-> <<>>] :
          h \in ClockHours, minute \in ClockMinutes, gap \in ClockGaps,
          marker \in ClockMarkers }

DurationPhrases ==
    { S_space \o S_for_ \o Decimal(n) \o S_space \o unit \o <<"s">> :
          n \in {1, 2, 90}, unit \in {S_hour, S_minute} }

ParseTimeCalls ==
    { [fn |-> "_parse_time", time_str |-> time_str, result |-> <<>>] :
          time_str \in
              { call.time_str : call \in NormalizeCalls }
                  \cup { Decimal(h) \o S_pm \o d : h \in {2, 10, 11}, d \in DurationPhrases }
                  \cup { Decimal(a) \o S_dash \o Decimal(b) \o S_pm :
                             a \in {1, 9}, b \in {3, 5} }
                  \cup { <<>>, S_morning, S_night, S_midnight, S_h1400, S_h2300,
                         <<"2", "3", ":", "4", "5">> } }

\* Phrases "from X to Y" with X and Y time points that _normalize_time accepts.
TimePoints ==
    { <<"9">>, <<"9", "a", "m">>, <<"2", "p", "m">>, <<"5", " ", "p", "m">>,
      <<"1", "0", ":", "3", "0">>, S_h1400 }

FromToCalls ==
    { [fn |-> "_parse_time", x |-> x, y |-> y,
       time_str |-> S_from \o S_space \o x \o S_space \o S_to \o S_space \o y,
       result |-> <<>>] : x \in TimePoints, y \in TimePoints }

InitTimes ==
    /\ Constructed
    /\ invoked \in NormalizeCalls \cup ParseTimeCalls \cup FromToCalls

NormalizeTime ==
    /\ invoked.fn = "_normalize_time"
    /\ invoked.result = <<>>
    /\ invoked' = [invoked EXCEPT !.result = <<_normalize_time(invoked.time_str)>>]
    /\ UNCHANGED agent_vars

ParseTime ==
    /\ invoked.fn = "_parse_time"
    /\ invoked.result = <<>>
    /\ invoked' = [invoked EXCEPT !.result = <<_parse_time(invoked.time_str)>>]
    /\ UNCHANGED agent_vars

NextTimes ==
    \/ NormalizeTime
    \/ ParseTime

SpecTimes == InitTimes /\ [][NextTimes]_vars

\* ---------------------------------------------------------------------
\* _simple_extraction called directly on turn texts "meet <date words>
\* <time words>", either part possibly missing.
\* ---------------------------------------------------------------------
AllWeekdays ==
    {S_monday, S_tuesday, S_wednesday, S_thursday, S_friday, S_saturday, S_sunday}

S_meet == <<"m", "e", "e", "t">>
S_Friday == <<"F", "r", "i", "d", "a", "y">>

DateWords == AllWeekdays \cup {<<>>, S_tomorrow, S_next_week, S_Friday}

BetweenWords ==
    { <<"b", "e", "t", "w", "e", "e", "n", " ", "2", " ", "a", "n", "d", " ", "4">>,
      <<"b", "e", "t", "w", "e", "e", "n", " ", "2", "p", "m", " ", "a", "n", "d", " ", "4", "p", "m">>,
      <<"b", "e", "t", "w", "e", "e", "n", " ", "4", "p", "m", " ", "a", "n", "d", " ", "2", "p", "m">>,
      <<"b", "e", "t", "w", "e", "e", "n", " ", "9", "-", "9">>,
      <<"b", "e", "t", "w", "e", "e", "n", " ", "1", "0", ":", "3", "0", "a", "m", " ", "-", " ", "1", "2", "p", "m">>,
      <<"b", "e", "t", "w", "e", "e", "n", " ", "1", "1", "a", "m", " ", "a", "n", "d", " ", "1", "p", "m">> }

TimeWords ==
    BetweenWords \cup
    { <<>>,
      <<"m", "o", "r", "n", "i", "n", "g">>,
      <<"a", "f", "t", "e", "r", "n", "o", "o", "n">>,
      <<"e", "v", "e", "n", "i", "n", "g">>,
      <<"2", "p", "m">>,
      <<"1", "2", "a", "m">>,
      <<"1", "0", ":", "3", "0">>,
      <<"a", "t", " ", "9">> }

ExtractionCalls ==
    { [fn |-> "_simple_extraction", date_words |-> d, time_words |-> t,
       user_input |-> S_meet \o (IF d = <<>> THEN <<>> ELSE S_space \o d)
                            \o (IF t = <<>> THEN <<>> ELSE S_space \o t),
       result |-> <<>>] : d \in DateWords, t \in TimeWords }

\* extract_details on the same texts, for each reply of the LLM: the replies
\* of the turns, the empty object "{}" and an object with a numeric
\* duration and no date.
ExtractLlmOutcomes ==
    LlmOutcomes \cup
    { LlmObject(<<>>, <<>>, <<>>, <<>>, <<>>),
      LlmObject(<<"book">>, <<>>, <<S_h1400>>, <<<<"4", "5">>>>, <<>>) }

ExtractDetailsCalls ==
    { [fn |-> "extract_details", user_input |-> call.user_input, llm |-> llm,
       result |-> <<>>] : call \in ExtractionCalls, llm \in ExtractLlmOutcomes }

InitExtraction ==
    /\ Constructed
    /\ invoked \in ExtractionCalls \cup ExtractDetailsCalls

ExtractDetails ==
    /\ invoked.fn = "extract_details"
    /\ invoked.result = <<>>
    /\ invoked' =
         [invoked EXCEPT !.result = <<ExtractedBy(invoked.user_input, invoked.llm)>>]
    /\ UNCHANGED agent_vars

SimpleExtraction ==
    /\ invoked.fn = "_simple_extraction"
    /\ invoked.result = <<>>
    /\ invoked' = [invoked EXCEPT !.result = <<_simple_extraction(invoked.user_input)>>]
    /\ UNCHANGED agent_vars

NextExtraction ==
    \/ SimpleExtraction
    \/ ExtractDetails

SpecExtraction == InitExtraction /\ [][NextExtraction]_vars


(***************************************************************************)
(* Properties                                                              *)
(***************************************************************************)
\* The last turn started entered the workflow (it was not rejected).
TurnRan == turns > 0 /\ user_id /= "" /\ turn_errors /= <<"unauthorized">>

\* The last turn started has ended, one way or the other.
TurnOver == pc = "idle" /\ TurnRan

\* The conversation as the running turn found it.
Before == IF turn_before = <<>> THEN NewConversation ELSE turn_before[1]

IsPrefix(s, t) == Len(s) <= Len(t) /\ \A k \in 1..Len(s) : s[k] = t[k]

\* C1: whenever a conversation holds a booking, the calendar created an
\* event (with id, link, start and end) for the suggested slot; a failed
\* booking call leaves no booking in the state.
C1_BookingIsConfirmed ==
    \A u \in DOMAIN conversations :
        conversations[u].booking /= <<>> =>
            /\ ~conversations[u].booking[1].empty
            /\ \E k \in 1..Len(events) :
                   /\ events[k].id = conversations[u].booking[1].id
                   /\ conversations[u].suggested_slot /= <<>>
                   /\ events[k].start = conversations[u].suggested_slot[1].start
                   /\ events[k].end = conversations[u].suggested_slot[1].end

\* C2: no message is ever lost: every step leaves the messages it found in
\* place, in order (the sequence only grows by appends).
C2_MessagesOnlyGrow ==
    [][\A u \in DOMAIN conversations :
           IsPrefix(conversations[u].messages, conversations'[u].messages)]_vars

\* C3: after any sequence of turns, a suggested slot, when present, is
\* available_slots[current_slot_index - 1] (position current_slot_index of
\* the sequence), so the index is at least 1 and within the list.
C3_SuggestedSlotIsTheOneBeforeTheIndex ==
    pc = "idle" =>
        \A u \in DOMAIN conversations :
            conversations[u].suggested_slot /= <<>> =>
                /\ conversations[u].current_slot_index >= 1
                /\ conversations[u].current_slot_index
                       <= Len(conversations[u].available_slots)
                /\ conversations[u].available_slots[conversations[u].current_slot_index]
                       = conversations[u].suggested_slot[1]

\* C4 as stated: current_slot_index never decreases from one step to the
\* next or from one turn to the next.
C4_IndexNeverDecreases ==
    [][\A u \in DOMAIN conversations :
           conversations'[u].current_slot_index
               >= conversations[u].current_slot_index]_vars

\* C4, amended: current_slot_index decreases only where the check step
\* stores a fresh slot list and resets it to 0, and a suggest step that
\* offers a slot leaves it exactly one past the index of the slot offered.
C4_IndexDecreasesOnlyAtCheck ==
    [][/\ \A u \in DOMAIN conversations :
              \/ conversations'[u].current_slot_index
                     >= conversations[u].current_slot_index
              \/ /\ pc = "check" /\ u = user_id
                 /\ conversations'[u].current_slot_index = 0
                 /\ Len(turn_lookups') = Len(turn_lookups) + 1
       /\ (pc = "suggest" /\ turn_offered' /= <<>>) =>
              /\ conversations'[user_id].current_slot_index
                     = conversations[user_id].current_slot_index + 1
              /\ conversations'[user_id].available_slots
                     [conversations'[user_id].current_slot_index] = turn_offered'[1]]_vars

\* A second turn whose check step reset an index that stood at 1 or more,
\* and whose suggest step then offered the first slot of the new list.
C4_Witness ==
    /\ pc = "confirm"
    /\ Before.current_slot_index >= 1
    /\ turn_lookups /= <<>>
    /\ turn_offered /= <<>>
    /\ Conv.current_slot_index = 1

\* C5: the branch out of extract is the stated function of the lowered text
\* and the extracted details: check when a booking keyword comes with date
\* and time; else inquire on an inquiry keyword; else check on date and
\* time; else respond.
C5_BranchIsTheStatedFunction ==
    [][pc = "extract" =>
           LET text == Lower(user_input)
               details == conversations'[user_id].extracted_details[1]
               booking_keyword ==
                   \/ Contains(text, S_book) \/ Contains(text, S_schedule)
                   \/ Contains(text, S_set_up) \/ Contains(text, S_want)
               inquiry_keyword ==
                   \/ Contains(text, S_free) \/ Contains(text, S_available)
                   \/ Contains(text, S_have_time)
               date_and_time == details.date /= <<>> /\ details.time /= <<>>
           IN  /\ pc' \in {"check", "inquire", "respond"}
               /\ pc' = "check" <=>
                      (date_and_time /\ (booking_keyword \/ ~inquiry_keyword))
               /\ pc' = "inquire" <=>
                      (inquiry_keyword /\ ~(booking_keyword /\ date_and_time))
               /\ pc' = "respond" <=> (~inquiry_keyword /\ ~date_and_time)]_vars

\* Extract has just sent a text holding both a booking and an inquiry
\* keyword, with date and time extracted, to check.
C5_Witness ==
    /\ pc = "check"
    /\ TurnRan
    /\ Conv.messages[Len(Conv.messages)].role = "human"
    /\ Contains(Lower(user_input), S_want)
    /\ Contains(Lower(user_input), S_free)
    /\ Conv.extracted_details[1].date /= <<>>
    /\ Conv.extracted_details[1].time /= <<>>

\* C6: there is no accept gate: in every turn in which suggest offers a
\* slot, confirm calls the calendar to book that slot in the same turn,
\* whatever the turn's text or extracted intent.
C6_OfferedSlotIsBookedInTheSameTurn ==
    (TurnRan /\ pc \in {"respond", "return", "idle"} /\ turn_offered /= <<>>) =>
        /\ Len(turn_bookings) = 1
        /\ turn_bookings[1].slot = turn_offered[1]

\* A turn whose text holds no booking keyword and whose intent is not
\* "book" has been offered a slot, and confirm has called the calendar for it.
C6_Witness ==
    /\ TurnRan
    /\ pc = "respond"
    /\ turn_offered /= <<>>
    /\ turn_bookings /= <<>>
    /\ turn_bookings[1].slot = turn_offered[1]
    /\ \A word \in BookingWords : ~Contains(Lower(user_input), word)
    /\ Conv.extracted_details[1].intent /= <<"book">>

\* C7: a turn that runs check, in which the availability call returns at
\* least one free slot and the calendar creates the event, passes through
\* confirm, ends with the booking in the conversation, and returns the
\* booking confirmation with that booking's start, end and link.
C7_FoundAndCreatedEndsInConfirmation ==
    /\ (TurnRan /\ pc \in {"respond", "return", "idle"}
            /\ turn_lookups /= <<>> /\ turn_lookups[1].found >= 1) =>
           Len(turn_bookings) = 1
    /\ (TurnOver /\ turn_lookups /= <<>> /\ turn_lookups[1].found >= 1
            /\ turn_bookings /= <<>> /\ ~turn_bookings[1].result.empty) =>
           /\ Conv.booking = <<turn_bookings[1].result>>
           /\ returned = <<BookedText(turn_bookings[1].result)>>
           /\ returned[1].from = _format_datetime(turn_bookings[1].slot.start)
           /\ returned[1].to = _format_datetime(turn_bookings[1].slot.end)
           /\ returned[1].link = turn_bookings[1].result.htmlLink

\* A turn has ended after check found a free slot and the event was created.
C7_Witness ==
    /\ TurnOver
    /\ turn_lookups /= <<>>
    /\ turn_lookups[1].found >= 1
    /\ turn_bookings /= <<>>
    /\ ~turn_bookings[1].result.empty
    /\ returned = <<BookedText(Conv.booking[1])>>

\* C8: no error leaves the component where it occurs: a step in which a
\* calendar request fails, an empty booking result is rendered or a date or
\* time cannot be parsed appends an assistant message to the conversation,
\* and no exception leaves the workflow node.
C8_ErrorsBecomeMessagesWhereTheyOccur ==
    [][(/\ Len(turn_errors') = Len(turn_errors) + 1
        /\ turn_errors'[Len(turn_errors')]
               \notin {"extraction", "credentials", "unauthorized"}) =>
           /\ ~turn_escaped'
           /\ Len(conversations'[user_id].messages)
                  = Len(conversations[user_id].messages) + 1
           /\ IsPrefix(conversations[user_id].messages,
                       conversations'[user_id].messages)
           /\ conversations'[user_id].messages
                  [Len(conversations'[user_id].messages)].role = "ai"]_vars

\* C9: a turn whose check step could not parse the date ends with
\* available_slots, current_slot_index, suggested_slot and booking as the
\* turn found them, and makes no booking call.
C9_DateErrorLeavesTheStateAlone ==
    (TurnOver /\ \E k \in 1..Len(turn_errors) : turn_errors[k] = "date") =>
        /\ turn_bookings = <<>>
        /\ Conv.available_slots = Before.available_slots
        /\ Conv.current_slot_index = Before.current_slot_index
        /\ Conv.suggested_slot = Before.suggested_slot
        /\ Conv.booking = Before.booking

\* C10: a calendar call whose request fails is made again: a lookup or a
\* booking whose first attempt raised has taken more than one attempt, and
\* none takes more than three.
C10_FailedCallsAreRetried ==
    /\ \A k \in 1..Len(turn_lookups) :
           /\ turn_lookups[k].attempts <= StopAfterAttempt
           /\ turn_lookups[k].failed => turn_lookups[k].attempts > 1
    /\ \A k \in 1..Len(turn_bookings) :
           /\ turn_bookings[k].attempts <= StopAfterAttempt
           /\ turn_bookings[k].failed => turn_bookings[k].attempts > 1

\* C11: a turn whose availability lookup failed at the calendar returns an
\* error apology, not the text of a lookup that found no free slot, and
\* makes no booking call.
C11_FailedLookupIsReportedAsAnError ==
    (TurnOver /\ turn_lookups /= <<>> /\ turn_lookups[1].failed) =>
        /\ returned \in {<<CheckFailedText>>, <<ProcessErrorText>>}
        /\ returned /= <<NoSlotsText>>
        /\ turn_bookings = <<>>

\* C12: a request for which no credential is found (chat's own test, or
\* the empty user id in process_message) ends at once with an
\* authentication outcome that no other turn returns: no extraction, lookup
\* or booking has run, and the user's conversation is neither created nor
\* changed.
C12_NoCredentialShortCircuits ==
    /\ (turns > 0 /\ (turn_errors = <<"unauthorized">> \/ user_id = "")) =>
           /\ pc = "idle"
           /\ returned = IF user_id = "" THEN <<AuthErrorText>>
                         ELSE <<UnauthorizedText>>
           /\ turn_lookups = <<>>
           /\ turn_bookings = <<>>
           /\ turn_offered = <<>>
           /\ IF turn_before = <<>> THEN user_id \notin DOMAIN conversations
              ELSE conversations[user_id] = turn_before[1]
    /\ (TurnOver => returned \notin {<<UnauthorizedText>>, <<AuthErrorText>>})

\* A request without credentials has been turned away from a user who
\* already has a conversation.
C12_Witness ==
    /\ turn_errors = <<"unauthorized">>
    /\ returned = <<UnauthorizedText>>
    /\ turn_before /= <<>>
    /\ conversations[user_id] = turn_before[1]
    /\ conversations[user_id].messages /= <<>>

\* C13: turns of different users are independent.  Every step of a turn
\* works on the conversation of the user the turn was started for: the
\* conversation of every other user is left exactly as it was, no other
\* entry appears or disappears, and a user's first turn starts from the
\* initial conversation whatever the other user has done.  A user's
\* conversation is therefore changed by that user's turns only.
C13_TurnsTouchOnlyTheirOwnUser ==
    [][/\ \A v \in DOMAIN conversations :
              v /= user_id' =>
                  /\ v \in DOMAIN conversations'
                  /\ conversations'[v] = conversations[v]
       /\ DOMAIN conversations' \subseteq DOMAIN conversations \cup {user_id'}
       /\ pc /= "idle" => user_id' = user_id
       /\ \A v \in DOMAIN conversations' \ DOMAIN conversations :
              conversations'[v] =
                  [NewConversation EXCEPT
                      !.messages = <<HumanMessage(Typed(user_input'))>>]
      ]_vars

\* A turn of u2 that offered a slot has ended after a turn of u1, and the
\* two conversations differ.
C13_Witness ==
    /\ pc = "idle"
    /\ user_id = "u2"
    /\ turn_offered /= <<>>
    /\ DOMAIN conversations = TwoUsers
    /\ conversations["u1"].suggested_slot = <<>>
    /\ conversations["u2"].suggested_slot /= <<>>
    /\ Len(conversations["u1"].messages) >= 2

\* The slots a finished direct call of get_available_slots returned.
SlotsReturned == invoked.result[1]

\* The candidate starts of a call: 09:00 + 15k of the date, for k >= 0, with
\* the slot ending by 17:00.
CandidateStarts ==
    { c \in (invoked.date * MinutesPerDay + 9 * 60)
                ..(invoked.date * MinutesPerDay + 17 * 60) :
          /\ (c - (invoked.date * MinutesPerDay + 9 * 60)) % 15 = 0
          /\ c + invoked.duration_minutes <= invoked.date * MinutesPerDay + 17 * 60 }

\* s.start < b.end and s.end > b.start, for a slot of the call starting at c.
HalfOpenOverlap(c, b) == c < b.end /\ c + invoked.duration_minutes > b.start

\* C15: no slot that get_available_slots returns overlaps a busy interval
\* under the half-open test, and a candidate that only touches busy
\* intervals at an endpoint is returned.
C15_NoReturnedSlotOverlapsABusyInterval ==
    invoked.result /= <<>> =>
        /\ \A i \in 1..Len(SlotsReturned), k \in 1..Len(invoked.busy_slots) :
               ~(/\ SlotsReturned[i].start < invoked.busy_slots[k].end
                 /\ SlotsReturned[i].end > invoked.busy_slots[k].start)
        /\ \A c \in CandidateStarts :
               (/\ \E k \in 1..Len(invoked.busy_slots) :
                       \/ c + invoked.duration_minutes = invoked.busy_slots[k].start
                       \/ c = invoked.busy_slots[k].end
                /\ \A k \in 1..Len(invoked.busy_slots) :
                       ~HalfOpenOverlap(c, invoked.busy_slots[k]))
                   => \E i \in 1..Len(SlotsReturned) : SlotsReturned[i].start = c

\* A call returned a slot that ends where a busy interval starts and a slot
\* that starts where one ends, and left out a candidate.
C15_Witness ==
    /\ invoked.result /= <<>>
    /\ \E i \in 1..Len(SlotsReturned), k \in 1..Len(invoked.busy_slots) :
           SlotsReturned[i].end = invoked.busy_slots[k].start
    /\ \E i \in 1..Len(SlotsReturned), k \in 1..Len(invoked.busy_slots) :
           SlotsReturned[i].start = invoked.busy_slots[k].end
    /\ Len(SlotsReturned) < Cardinality(CandidateStarts)

\* C16: get_available_slots returns exactly the candidates 09:00 + 15k that
\* end by 17:00 and overlap no busy interval: each returned slot lasts the
\* duration, the starts are strictly ascending, and no free candidate is
\* missing (the first slot is 09:00 when 09:00 is free).
C16_ReturnedSlotsAreExactlyTheFreeCandidates ==
    invoked.result /= <<>> =>
        LET free == { c \in CandidateStarts :
                          \A k \in 1..Len(invoked.busy_slots) :
                              ~HalfOpenOverlap(c, invoked.busy_slots[k]) }
        IN  /\ { SlotsReturned[i].start : i \in 1..Len(SlotsReturned) } = free
            /\ \A i \in 1..Len(SlotsReturned) :
                   SlotsReturned[i].end - SlotsReturned[i].start
                       = invoked.duration_minutes
            /\ \A i \in 1..Len(SlotsReturned), j \in 1..Len(SlotsReturned) :
                   i < j => SlotsReturned[i].start < SlotsReturned[j].start
            /\ (invoked.date * MinutesPerDay + 9 * 60 \in free) =>
                   SlotsReturned[1].start = invoked.date * MinutesPerDay + 9 * 60

\* A call returned some but not all of its candidates, the first of them
\* at 09:00 and the last one ending at 17:00.
C16_Witness ==
    /\ invoked.result /= <<>>
    /\ Len(SlotsReturned) > 1
    /\ Len(SlotsReturned) < Cardinality(CandidateStarts)
    /\ SlotsReturned[1].start = invoked.date * MinutesPerDay + 9 * 60
    /\ SlotsReturned[Len(SlotsReturned)].end = invoked.date * MinutesPerDay + 17 * 60

\* The hour of an "HH:MM" text, and of an instant.
HourOfClock(text) == ParseInt(Split(text, S_colon)[1]).val
HourOfInstant(t) == (t % MinutesPerDay) \div 60

\* Of the free slots a lookup returned, those whose start hour h satisfies
\* start hour <= h < end hour for the window (start, end) that the time
\* phrase normalizes to.
InWindow(slots, time) ==
    SelectSeq(slots,
              LAMBDA slot :
                  /\ HourOfClock(_parse_time(time).val[1]) <= HourOfInstant(slot.start)
                  /\ HourOfInstant(slot.start) < HourOfClock(_parse_time(time).val[2]))

\* The slots check_availability is to store for these free slots.
SlotsToStore(slots, time) ==
    IF InWindow(slots, time) /= <<>> THEN InWindow(slots, time) ELSE slots

\* The free slots the lookup of this turn returned, and those in the window.
SlotsLookedUp == turn_lookups[Len(turn_lookups)].slots
SlotsInWindow == InWindow(SlotsLookedUp, Conv.extracted_details[1].time)

\* C17: when check_availability has run without an exception, the
\* conversation holds the free slots whose start hour lies in the requested
\* window if there is one, and the complete list of free slots otherwise;
\* the slot index is 0; and nothing else in the conversation has changed,
\* so nothing records which of the two cases it was.
C17_CheckStoresFilteredOrAllSlots ==
    [][(pc = "check" /\ pc' = "suggest" /\ turn_lookups' /= turn_lookups
            /\ conversations'[user_id].messages = Conv.messages) =>
          conversations'[user_id] =
              [Conv EXCEPT
                  !.available_slots =
                      SlotsToStore(turn_lookups'[Len(turn_lookups')].slots,
                                   Conv.extracted_details[1].time),
                  !.current_slot_index = 0]
      ]_vars

\* check_availability found free slots, none of them in the requested
\* window, and stored them all.
C17_Witness ==
    /\ pc = "suggest"
    /\ turn_lookups /= <<>>
    /\ SlotsLookedUp /= <<>>
    /\ SlotsInWindow = <<>>
    /\ Conv.available_slots = SlotsLookedUp
    /\ Conv.current_slot_index = 0

\* check_availability stored the slots in the window and left out a free
\* slot outside it.
C17_WitnessExact ==
    /\ pc = "suggest"
    /\ turn_lookups /= <<>>
    /\ SlotsInWindow /= <<>>
    /\ Len(SlotsInWindow) < Len(SlotsLookedUp)
    /\ Conv.available_slots = SlotsInWindow

\* C18: on every weekday of today and for every target weekday, "next" and
\* "coming" give the first such day strictly after today (1 to 7 days
\* ahead, 7 when today is that day), "this" gives the first such day on or
\* after today (0 to 6 days ahead, 0 when today is that day), and the date
\* falls on the target weekday.
C18_WeekdayPhrasesResolveToTheNamedDay ==
    invoked.result /= <<>> =>
        /\ invoked.result[1].ok
        /\ (today_weekday + invoked.result[1].val) % 7 = invoked.day
        /\ IF invoked.prefix = S_this
           THEN /\ invoked.result[1].val \in 0..6
                /\ today_weekday = invoked.day => invoked.result[1].val = 0
           ELSE /\ invoked.result[1].val \in 1..7
                /\ today_weekday = invoked.day => invoked.result[1].val = 7

\* "coming <day>" asked on that very weekday came out a week ahead.
C18_Witness ==
    /\ invoked.result /= <<>>
    /\ invoked.prefix = S_coming
    /\ today_weekday = invoked.day
    /\ invoked.result[1].val = 7

\* An "HH:MM" text of a 24-hour time of day: hour 0..23, minute 0..59.
IsTimeOfDay(text) ==
    /\ Len(text) = 5
    /\ text[3] = ":"
    /\ IsDigits(SubSeq(text, 1, 2))
    /\ IsDigits(SubSeq(text, 4, 5))
    /\ DigitsVal(SubSeq(text, 1, 2)) <= 23
    /\ DigitsVal(SubSeq(text, 4, 5)) <= 59

\* C19: _normalize_time gives every 12-hour reading its 24-hour hour: pm
\* adds 12 below 12 and leaves 12, am leaves the hours below 12 and turns
\* 12 into 0; the minutes are kept.
C19_TwelveHourReadingsAreNormalized ==
    (invoked.fn = "_normalize_time" /\ invoked.result /= <<>>) =>
        /\ invoked.result[1].ok
        /\ invoked.result[1].val =
               FmtHM(IF invoked.marker = S_pm
                     THEN (IF invoked.hour < 12 THEN invoked.hour + 12 ELSE 12)
                     ELSE (IF invoked.hour < 12 THEN invoked.hour ELSE 0),
                     IF invoked.minute = <<>> THEN 0
                     ELSE DigitsVal(SubSeq(invoked.minute, 2, 3)))

\* The readings other than 12 am come out as the claim says.
C19_AllButTwelveAm ==
    (invoked.fn = "_normalize_time" /\ invoked.result /= <<>>
         /\ ~(invoked.marker = S_am /\ invoked.hour = 12)) =>
        C19_TwelveHourReadingsAreNormalized

\* C20: every pair _parse_time returns is a pair of 24-hour times of day,
\* hour 0..23 and minute 0..59.
C20_ParsedTimesAreTimesOfDay ==
    (invoked.fn = "_parse_time" /\ invoked.result /= <<>> /\ invoked.result[1].ok) =>
        /\ IsTimeOfDay(invoked.result[1].val[1])
        /\ IsTimeOfDay(invoked.result[1].val[2])

\* A returned end time with an hour past 23.
C20_EndHourPastMidnight ==
    /\ invoked.fn = "_parse_time"
    /\ invoked.result /= <<>>
    /\ invoked.result[1].ok
    /\ IsTimeOfDay(invoked.result[1].val[1])
    /\ ~IsTimeOfDay(invoked.result[1].val[2])

\* C21: a phrase "from X to Y" whose X and Y are valid time points comes
\* out of _parse_time as (normalize(X), normalize(Y)), not as a parse
\* failure.
C21_FromToPhrasesAreResolved ==
    (invoked.fn = "_parse_time" /\ "x" \in DOMAIN invoked /\ invoked.result /= <<>>) =>
        /\ _normalize_time(invoked.x).ok
        /\ _normalize_time(invoked.y).ok
        /\ invoked.result[1].ok
        /\ invoked.result[1].val =
               <<_normalize_time(invoked.x).val, _normalize_time(invoked.y).val>>

\* Both time points normalize, and the phrase ended in a parse failure.
C21_FromToPhraseFails ==
    /\ invoked.fn = "_parse_time"
    /\ "x" \in DOMAIN invoked
    /\ invoked.result /= <<>>
    /\ _normalize_time(invoked.x).ok
    /\ _normalize_time(invoked.y).ok
    /\ ~invoked.result[1].ok

\* The dict a finished direct call of _simple_extraction stored.
Extracted == invoked.result[1]

\* C22: _simple_extraction stores a dict with the four keys date, time,
\* duration and purpose for every text, and each key has its default
\* ("today", "12:00", 30, "Meeting") where the text has no words that
\* override it.
C22_FallbackStoresAllFieldsWithDefaults ==
    (invoked.fn = "_simple_extraction" /\ invoked.result /= <<>>) =>
        /\ {"date", "time", "duration", "purpose"} \subseteq DOMAIN Extracted
        /\ Extracted.purpose = S_Meeting
        /\ Extracted.date /= <<>>
        /\ Extracted.time /= <<>>
        /\ Extracted.duration \in Int
        /\ invoked.date_words = <<>> => Extracted.date = S_today
        /\ invoked.time_words = <<>> => Extracted.time = S_h1200
        /\ invoked.time_words \notin BetweenWords => Extracted.duration = 30

\* A text with neither date nor time words came out with all four defaults.
C22_Witness ==
    /\ invoked.fn = "_simple_extraction"
    /\ invoked.result /= <<>>
    /\ invoked.date_words = <<>>
    /\ invoked.time_words = <<>>
    /\ Extracted.date = S_today
    /\ Extracted.time = S_h1200
    /\ Extracted.duration = 30
    /\ Extracted.purpose = S_Meeting

\* C23: a text that names a weekday, any of the seven, and does not say
\* "tomorrow" gets the date "next <that day>" from _simple_extraction.
C23_FallbackWeekdayBecomesNextDay ==
    (invoked.fn = "_simple_extraction" /\ invoked.result /= <<>>
         /\ Lower(invoked.date_words) \in AllWeekdays) =>
        Extracted.date = S_next \o S_space \o Lower(invoked.date_words)

\* The five days from Monday to Friday come out as the claim says.
C23_MondayToFriday ==
    (invoked.fn = "_simple_extraction" /\ invoked.result /= <<>>
         /\ Lower(invoked.date_words) \in AllWeekdays \ {S_saturday, S_sunday}) =>
        Extracted.date = S_next \o S_space \o Lower(invoked.date_words)

\* C28: the duration _simple_extraction stores is a positive number of
\* minutes; for "between A and B" it is the length of the range, never
\* zero or negative.
C28_FallbackDurationIsPositive ==
    (invoked.fn = "_simple_extraction" /\ invoked.result /= <<>>) =>
        Extracted.duration > 0

\* A "between" text came out with a duration that is not positive.
C28_DurationNotPositive ==
    /\ invoked.fn = "_simple_extraction"
    /\ invoked.result /= <<>>
    /\ invoked.time_words \in BetweenWords
    /\ Extracted.duration <= 0

\* TRUE when the reply's duration is absent or a text int() accepts.
DurationCoercible ==
    \/ invoked.llm.obj.duration = <<>>
    \/ IsDigits(Strip(invoked.llm.obj.duration[1]))

C25_ResponseIsAppendedUnlessItIsTheLastMessage ==
    [][(pc = "respond" /\ pc' = "return") =>
          conversations'[user_id].messages =
              IF /\ Conv.messages /= <<>>
                 /\ Conv.messages[Len(Conv.messages)].content = RenderedResponse(Conv)
              THEN Conv.messages
              ELSE Append(Conv.messages, AIMessage(RenderedResponse(Conv)))
      ]_vars

\* generate_response has left the messages alone although the last of them
\* is the user's message of this turn.
C25_EarlierTextSuppressesTheResponse ==
    /\ pc = "return"
    /\ Conv.messages /= <<>>
    /\ Conv.messages[Len(Conv.messages)].role = "human"

\* C26: the text process_message returns for a turn is the text that
\* generate_response rendered in that turn.
C26_ReturnedTextIsTheRenderedResponse ==
    [][(pc = "return" /\ pc' = "idle") => returned' = <<RenderedResponse(Conv)>>]_vars

\* A turn has returned a text that generate_response did not render.
C26_ReturnedAnotherText ==
    /\ TurnOver
    /\ ~turn_escaped
    /\ returned /= <<RenderedResponse(Conv)>>

\* The steps that may follow one another inside a turn: the paths from
\* "extract" to "respond" in this graph are extract, respond; extract,
\* check, suggest, confirm, respond; and extract, inquire, check, suggest,
\* confirm, respond.  "return" is process_message picking the answer.
StepOrder ==
    { <<"idle", "extract">>, <<"extract", "respond">>, <<"extract", "check">>,
      <<"extract", "inquire">>, <<"inquire", "check">>, <<"check", "suggest">>,
      <<"suggest", "confirm">>, <<"confirm", "respond">>,
      <<"respond", "return">>, <<"respond", "idle">>, <<"return", "idle">> }

\* C27: every turn runs extract, respond; or extract, check, suggest,
\* confirm, respond; or extract, inquire, check, suggest, confirm, respond:
\* each step is followed only by its successor in one of these orders, the
\* turn ends only after respond, and inquire is followed by check also when
\* it could not build its message.
C27_StepsRunInOneOfThreeOrders ==
    [][/\ pc' /= pc => <<pc, pc'>> \in StepOrder
       /\ pc' = pc => pc = "idle"
       /\ pc = "inquire" => pc' = "check"
      ]_vars

\* A turn whose inquiry could not read the date went on to check, which
\* failed on the same date, and has ended.
C27_Witness ==
    /\ TurnOver
    /\ Len(turn_errors) >= 2
    /\ turn_errors[1] = "inquiry_date"
    /\ turn_errors[2] = "date"

\* C29: the slot finalize_booking passes to book_appointment is the slot
\* suggest_slots offered in the same turn; a turn that offered nothing
\* books nothing.
C29_BookedSlotWasOfferedInTheSameTurn ==
    \A k \in 1..Len(turn_bookings) :
        /\ turn_offered /= <<>>
        /\ turn_bookings[k].slot = turn_offered[1]

\* A turn that offered no slot has called book_appointment.
C29_BookedALeftoverSlot ==
    /\ turn_bookings /= <<>>
    /\ turn_offered = <<>>
    /\ turn_before /= <<>>
    /\ turn_before[1].suggested_slot = <<turn_bookings[1].slot>>

\* C30: the step out of extract leaves no booking in the conversation; a
\* booking that is there when the turn ends is the one finalize_booking
\* stored in this turn; and a turn in which finalize_booking stored none,
\* as every turn that goes from extract to respond, ends without a booking.
C30_BookingAtTurnEndIsOfThisTurn ==
    [][/\ pc = "extract" => conversations'[user_id].booking = <<>>
       /\ (pc = "extract" /\ pc' = "respond") => turn_bookings' = <<>>
       /\ (pc /= "idle" /\ pc' = "idle") =>
              /\ conversations'[user_id].booking /= <<>> =>
                     /\ turn_bookings' /= <<>>
                     /\ conversations'[user_id].booking =
                            <<turn_bookings'[Len(turn_bookings')].result>>
              /\ turn_bookings' = <<>> => conversations'[user_id].booking = <<>>
      ]_vars

\* A turn that found a booking of an earlier turn went from extract to
\* respond and has ended with no booking in the conversation.
C30_Witness ==
    /\ TurnOver
    /\ turn_before /= <<>>
    /\ turn_before[1].booking /= <<>>
    /\ ~turn_before[1].booking[1].empty
    /\ turn_lookups = <<>>
    /\ turn_bookings = <<>>
    /\ turn_errors = <<>>
    /\ Conv.booking = <<>>

\* C31: a turn makes at most one book_appointment call and that call issues
\* at most one events().insert request; a turn whose decision after
\* extraction was "respond" has ended without a get_available_slots call
\* and without a book_appointment call.
C31_AtMostOneEventRequestPerTurn ==
    TurnRan =>
        /\ Len(turn_bookings) <= 1
        /\ \A k \in 1..Len(turn_bookings) : turn_bookings[k].requests <= 1
        /\ (/\ pc = "idle"
            /\ _decide_after_extraction(user_input, Conv.extracted_details[1])
                   = "respond") =>
               /\ turn_lookups = <<>>
               /\ turn_bookings = <<>>

\* A finished turn whose only events().insert request failed.
C31_Witness ==
    /\ TurnOver
    /\ Len(turn_bookings) = 1
    /\ turn_bookings[1].failed
    /\ turn_bookings[1].requests = 1
    /\ turn_bookings[1].result.empty

\* The window the time phrase of this turn parses to starts and ends in the
\* same clock hour.
WindowWithinOneHour ==
    /\ _parse_time(Conv.extracted_details[1].time).ok
    /\ HourOfClock(_parse_time(Conv.extracted_details[1].time).val[1])
           = HourOfClock(_parse_time(Conv.extracted_details[1].time).val[2])

\* C32: when the window of the time phrase lies within one clock hour, then
\* once check_availability has run the hour filter has kept no slot and
\* available_slots is the complete list of free slots the lookup returned,
\* and once suggest_slots has run the slot it offered is the first and
\* earliest of them, whatever the requested time.
C32_OneHourWindowOffersTheEarliestFreeSlot ==
    (/\ TurnRan
     /\ pc \in {"suggest", "confirm"}
     /\ turn_lookups /= <<>>) =>
        LET window == _parse_time(Conv.extracted_details[1].time)
            start_hour == HourOfClock(window.val[1])
            end_hour == HourOfClock(window.val[2])
        IN  (window.ok /\ start_hour = end_hour) =>
                /\ \A k \in 1..Len(SlotsLookedUp) :
                       ~(/\ start_hour <= HourOfInstant(SlotsLookedUp[k].start)
                         /\ HourOfInstant(SlotsLookedUp[k].start) < end_hour)
                /\ Conv.available_slots = SlotsLookedUp
                /\ (pc = "confirm" /\ SlotsLookedUp /= <<>>) =>
                       /\ turn_offered = <<SlotsLookedUp[1]>>
                       /\ \A k \in 1..Len(SlotsLookedUp) :
                              SlotsLookedUp[1].start <= SlotsLookedUp[k].start

\* The request was for 14:00, a slot starting at 14:00 is free, and
\* suggest_slots has offered the earlier free slot of the day.
C32_Witness ==
    /\ TurnRan
    /\ pc = "confirm"
    /\ turn_lookups /= <<>>
    /\ WindowWithinOneHour
    /\ HourOfClock(_parse_time(Conv.extracted_details[1].time).val[1]) = 14
    /\ \E k \in 1..Len(SlotsLookedUp) : HourOfInstant(SlotsLookedUp[k].start) = 14
    /\ turn_offered /= <<>>
    /\ HourOfInstant(turn_offered[1].start) = 9
    /\ Conv.available_slots = SlotsLookedUp

====
